---- MODULE Spec2Model ----
(***************************************************************************)
(* Model of the ClouDNS client of plugins/module_utils/swagger/            *)
(* cloudns_api.py: the record methods of ClouDNSClient (list_records,      *)
(* add_record, modify_record, delete_record) and the reconciliation        *)
(* helper ensure_record, run against a remote zone.                        *)
(*                                                                         *)
(* Python values are modelled as follows.  A dict is a function from key   *)
(* strings to values; dict.get(k, d) is Get.  None is the string "None".   *)
(* A character string that the code inspects (a ttl held by the remote, a  *)
(* status description) is a tuple of one-character strings, so that int()  *)
(* and lower()/in are computed.  An ordered mapping of record ids to       *)
(* records (the decoded JSON object of dnsListRecords) is a sequence of    *)
(* [id, rec] items in response order.  An f-string is the tuple of its     *)
(* fragments.  result['data'] is <<>> for None and <<response>> otherwise. *)
(***************************************************************************)
EXTENDS Integers, Sequences, FiniteSets, TLC

\* Largest number of records the zone holds in an initial state.
MaxRecs == 2

None == "None"

Domains == {"example.com"}
\* The hosts reconciled, and a record of another host of the same zone.
Hosts == {"www"}
OtherRecords == {[host |-> "mail", type |-> "A", record |-> "1.2.3.4", ttl |-> <<"6", "0">>]}
\* A record that holds an extra attribute.
ExtraRecords ==
    {[host |-> "www", type |-> "A", record |-> "1.2.3.4", ttl |-> <<"6", "0">>,
      priority |-> 20]}
Types == {"A"}
Values == {"1.2.3.4", "9.9.9.9"}
Ttls == {60, 300}
\* The ttl of a listed record is a decimal string, not always in canonical form.
TtlStrings == {<<"6", "0">>, <<"3", "0", "0">>, <<"0", "6", "0">>}
\* 'latest' stands for any state other than 'present' and 'absent'.
StateArgs == {"present", "absent", "latest"}
\* The value argument: a string, the empty string, or None.
ValueArgs == Values \cup {"", None}

EmptyDict == [k \in {} |-> None]
\* **kwargs of ensure_record as run_with_swagger_client builds them.
KwargsArgs == {EmptyDict, [k \in {"priority"} |-> 10]}

VARIABLES
    remote,     \* the zone at the remote: a sequence of records
    args,       \* the arguments of the last ensure_record invocation
    result,     \* the dict the last invocation returned
    calls,      \* the API calls the last invocation issued, in order
    existing,   \* <<items>> when list_records returned items to the last
                \* invocation, <<>> when it raised or was not called
    invoked,    \* whether ensure_record has been invoked at all
    repeat,     \* history: the last invocation repeated the arguments of
                \* the one before it, which had reported changed=True
    returned,   \* what the last direct call of a client method came to
    tasks,      \* the ensure_record invocations of concurrent tasks
    client      \* the attributes of the ClouDNSClient instance (self)

vars == <<remote, args, result, calls, existing, invoked, repeat, returned, tasks,
          client>>

----------------------------------------------------------------------------
(* Python helpers *)

Get(d, k, default) == IF k \in DOMAIN d THEN d[k] ELSE default

Put(d, k, v) == [x \in DOMAIN d \cup {k} |-> IF x = k THEN v ELSE d[x]]

Update(d, e) == [x \in DOMAIN d \cup DOMAIN e |-> IF x \in DOMAIN e THEN e[x] ELSE d[x]]

\* bool(value) for a str-or-None value
Truthy(v) == v # None /\ v # ""

DigitChars == <<"0", "1", "2", "3", "4", "5", "6", "7", "8", "9">>

DigitOf(c) == (CHOOSE i \in 1..10 : DigitChars[i] = c) - 1

RECURSIVE PyInt(_)
\* int(s) for a string of decimal digits
PyInt(s) ==
    IF Len(s) = 0 THEN 0
    ELSE 10 * PyInt(SubSeq(s, 1, Len(s) - 1)) + DigitOf(s[Len(s)])

RECURSIVE PyStr(_)
\* str(n) for n >= 0
PyStr(n) ==
    IF n < 10 THEN <<DigitChars[n + 1]>>
    ELSE Append(PyStr(n \div 10), DigitChars[(n % 10) + 1])

UpperChars == <<"A","B","C","D","E","F","G","H","I","J","K","L","M",
                "N","O","P","Q","R","S","T","U","V","W","X","Y","Z">>
LowerChars == <<"a","b","c","d","e","f","g","h","i","j","k","l","m",
                "n","o","p","q","r","s","t","u","v","w","x","y","z">>

LowerChar(c) ==
    IF \E i \in 1..26 : UpperChars[i] = c
    THEN LowerChars[CHOOSE i \in 1..26 : UpperChars[i] = c]
    ELSE c

\* s.lower()
Lower(s) == [i \in 1..Len(s) |-> LowerChar(s[i])]

\* The element of a singleton set: The({e(x) : x \in {v}}) is e with x bound to
\* the value of v.
The(S) == CHOOSE x \in S : TRUE

\* sub in s
Contains(s, sub) ==
    \E i \in 1..(Len(s) - Len(sub) + 1) : SubSeq(s, i, i + Len(sub) - 1) = sub

----------------------------------------------------------------------------
(* The remote API as SwaggerClient.call_operation presents it.              *)
(* A record of the zone is a dict with keys id, host, type, record and,     *)
(* unless the API omits it, ttl (a decimal string): the attributes the      *)
(* client reads back from a listing.  It keeps the extra attributes it was  *)
(* sent.                                                                    *)

Chars_NoRecords == <<"N","o"," ","r","e","c","o","r","d","s"," ","f","o","u","n","d",".">>
Chars_Refused == <<"R","e","q","u","e","s","t"," ","r","e","f","u","s","e","d",".">>
Chars_Done == <<"D","o","n","e",".">>
Chars_HostNotFound == <<"H","o","s","t"," ","N","O","T"," ","F","O","U","N","D">>
Chars_Denied == <<"D","e","n","i","e","d">>

\* The decoded body of a call: either a JSON object of records keyed by id,
\* or a status envelope {status, statusDescription}.
RecordsBody(items) == [kind |-> "records", items |-> items]
Envelope(status, desc) ==
    [kind |-> "envelope", body |-> [status |-> status, statusDescription |-> desc]]

\* A JSON null body.
Null == [kind |-> "null"]

\* How the remote answers during one invocation: what it sends for an empty
\* listing ("object": {}, "failed": the Failed/"No records found." envelope,
\* "notfound": a Failed envelope worded otherwise, "null": a null body),
\* and which call of the invocation, if any, it does not carry out (0: none)
\* and what it answers then ("transport": SwaggerClientError is raised).
NominalEnvs == [empty : {"object", "failed"}, fail : {0}, mode : {"status"}]

\* The body the remote sends for a call it does not carry out.
FailureBody(mode) ==
    CASE mode = "status" -> Envelope("Failed", Chars_Refused)
      [] mode = "failed" -> Envelope("failed", Chars_Refused)
      [] mode = "message" ->
            [kind |-> "envelope", body |-> [status |-> "Failed", message |-> Chars_Denied]]
      [] mode = "bare" -> [kind |-> "envelope", body |-> [status |-> "Failed"]]
      [] mode = "nodesc" ->
            [kind |-> "envelope",
             body |-> [status |-> "Failed", statusDescription |-> <<>>,
                       message |-> Chars_Denied]]
      [] mode = "transport" -> Null

\* Record ids are the keys of a JSON object: decimal strings.
RecordId(i) == ToString(i)

\* The smallest record id the zone does not use.
NewId(rem) ==
    RecordId(CHOOSE i \in 1..(Len(rem) + 1) :
                /\ \A j \in 1..Len(rem) : rem[j].id # RecordId(i)
                /\ \A k \in 1..(i - 1) : \E j \in 1..Len(rem) : rem[j].id = RecordId(k))

SelectIdx(rem, params) ==
    {j \in 1..Len(rem) :
        /\ ("host" \in DOMAIN params => rem[j].host = params["host"])
        /\ ("type" \in DOMAIN params => rem[j].type = params["type"])}

RECURSIVE ItemsFrom(_, _, _)
ItemsFrom(rem, idx, j) ==
    IF j > Len(rem) THEN <<>>
    ELSE IF j \in idx
         THEN <<[id |-> rem[j].id, rec |-> rem[j]]>> \o ItemsFrom(rem, idx, j + 1)
         ELSE ItemsFrom(rem, idx, j + 1)

\* The body of an empty listing.
EmptyBody(empty) ==
    CASE empty = "object" -> RecordsBody(<<>>)
      [] empty = "failed" -> Envelope("Failed", Chars_NoRecords)
      [] empty = "notfound" -> Envelope("Failed", Chars_HostNotFound)
      [] empty = "null" -> Null

RemoteList(rem, params, env) ==
    [response |-> IF SelectIdx(rem, params) = {}
                  THEN EmptyBody(env.empty)
                  ELSE RecordsBody(ItemsFrom(rem, SelectIdx(rem, params), 1)),
     remote |-> rem]

\* The extra attributes of a record among the parameters of a call.
ExtraKeys == {"priority"}
Extras(params) == [k \in DOMAIN params \cap ExtraKeys |-> params[k]]

RemoteAdd(rem, params) ==
    LET rec == [id |-> NewId(rem),
                host |-> params["host"],
                type |-> params["record-type"],
                record |-> params["record"],
                ttl |-> PyStr(params["ttl"])]
    IN  [response |-> Envelope("Success", Chars_Done),
         remote |-> Append(rem, Update(rec, Extras(params)))]

RemoteModify(rem, params) ==
    IF \E j \in 1..Len(rem) : rem[j].id = params["record-id"]
    THEN [response |-> Envelope("Success", Chars_Done),
          remote |-> [j \in 1..Len(rem) |->
                        IF rem[j].id = params["record-id"]
                        THEN Update(Update(rem[j],
                                           [host |-> params["host"],
                                            record |-> params["record"],
                                            ttl |-> PyStr(params["ttl"])]),
                                    Extras(params))
                        ELSE rem[j]]]
    ELSE [response |-> Envelope("Failed", Chars_Refused), remote |-> rem]

RECURSIVE Without(_, _)
Without(rem, id) ==
    IF rem = <<>> THEN <<>>
    ELSE IF Head(rem).id = id THEN Without(Tail(rem), id)
         ELSE <<Head(rem)>> \o Without(Tail(rem), id)

RemoteDelete(rem, params) ==
    IF \E j \in 1..Len(rem) : rem[j].id = params["record-id"]
    THEN [response |-> Envelope("Success", Chars_Done),
          remote |-> Without(rem, params["record-id"])]
    ELSE [response |-> Envelope("Failed", Chars_Refused), remote |-> rem]

\* self._client.call_operation(operation_id, params) as call number n of an
\* invocation: [raised, response, remote], raised meaning SwaggerClientError.
call_operation(rem, operation_id, params, env, n) ==
    IF env.fail = n
    THEN [raised |-> env.mode = "transport",
          response |-> FailureBody(env.mode),
          remote |-> rem]
    ELSE The({[raised |-> FALSE, response |-> r.response, remote |-> r.remote] :
              r \in {CASE operation_id = "dnsListRecords" -> RemoteList(rem, params, env)
                       [] operation_id = "dnsAddRecord" -> RemoteAdd(rem, params)
                       [] operation_id = "dnsModifyRecord" -> RemoteModify(rem, params)
                       [] operation_id = "dnsDeleteRecord" -> RemoteDelete(rem, params)}})

----------------------------------------------------------------------------
(* ClouDNSClient *)

\* optional_params of add_record: Python argument name |-> key sent.
AddOptional ==
    [priority |-> "priority", weight |-> "weight", port |-> "port",
     frame |-> "frame", frame_title |-> "frame-title",
     frame_keywords |-> "frame-keywords",
     frame_description |-> "frame-description", save_path |-> "save-path",
     redirect_type |-> "redirect-type", mail |-> "mail", txt |-> "txt",
     algorithm |-> "algorithm", fptype |-> "fptype", status |-> "status",
     geodns_location |-> "geodns-location", caa_flag |-> "caa_flag",
     caa_type |-> "caa_type", caa_value |-> "caa_value",
     mobile_meta |-> "mobile-meta", tlsa_usage |-> "tlsa_usage",
     tlsa_selector |-> "tlsa_selector",
     tlsa_matching_type |-> "tlsa_matching_type", key_tag |-> "key-tag",
     digest_type |-> "digest-type", order |-> "order", pref |-> "pref",
     flag |-> "flag", params |-> "params", regexp |-> "regexp",
     replace |-> "replace", cert_type |-> "cert-type",
     cert_key_tag |-> "cert-key-tag", cert_algorithm |-> "cert-algorithm",
     lat_deg |-> "lat-deg", lat_min |-> "lat-min", lat_sec |-> "lat-sec",
     lat_dir |-> "lat-dir", long_deg |-> "long-deg", long_min |-> "long-min",
     long_sec |-> "long-sec", long_dir |-> "long-dir",
     altitude |-> "altitude", size |-> "size", h_precision |-> "h-precision",
     v_precision |-> "v-precision", cpu |-> "cpu", os |-> "os"]

\* optional_params of modify_record: Python argument name |-> key sent.
ModifyOptional ==
    [priority |-> "priority", weight |-> "weight", port |-> "port",
     frame |-> "frame", frame_title |-> "frame-title",
     frame_keywords |-> "frame-keywords",
     frame_description |-> "frame-description", save_path |-> "save-path",
     redirect_type |-> "redirect-type", mail |-> "mail", txt |-> "txt",
     algorithm |-> "algorithm", fptype |-> "fptype", status |-> "status",
     geodns_location |-> "geodns-location", caa_flag |-> "caa_flag",
     caa_type |-> "caa_type", caa_value |-> "caa_value"]

\* key.replace('_', '-') for the argument names above.
Dashed ==
    [priority |-> "priority", weight |-> "weight", port |-> "port",
     frame |-> "frame", frame_title |-> "frame-title",
     frame_keywords |-> "frame-keywords",
     frame_description |-> "frame-description", save_path |-> "save-path",
     redirect_type |-> "redirect-type", mail |-> "mail", txt |-> "txt",
     algorithm |-> "algorithm", fptype |-> "fptype", status |-> "status",
     geodns_location |-> "geodns-location", caa_flag |-> "caa-flag",
     caa_type |-> "caa-type", caa_value |-> "caa-value",
     mobile_meta |-> "mobile-meta", tlsa_usage |-> "tlsa-usage",
     tlsa_selector |-> "tlsa-selector",
     tlsa_matching_type |-> "tlsa-matching-type", key_tag |-> "key-tag",
     digest_type |-> "digest-type", order |-> "order", pref |-> "pref",
     flag |-> "flag", params |-> "params", regexp |-> "regexp",
     replace |-> "replace", cert_type |-> "cert-type",
     cert_key_tag |-> "cert-key-tag", cert_algorithm |-> "cert-algorithm",
     lat_deg |-> "lat-deg", lat_min |-> "lat-min", lat_sec |-> "lat-sec",
     lat_dir |-> "lat-dir", long_deg |-> "long-deg", long_min |-> "long-min",
     long_sec |-> "long-sec", long_dir |-> "long-dir",
     altitude |-> "altitude", size |-> "size", h_precision |-> "h-precision",
     v_precision |-> "v-precision", cpu |-> "cpu", os |-> "os",
     \* a name that neither method declares
     comment |-> "comment"]

\* A raised ClouDNSError / a returned value, with the remote as the call left
\* it and the calls issued.  api_response is <<>> for None.
Raise(msg, rem, log) ==
    [raised |-> TRUE, msg |-> msg, api_response |-> <<>>, value |-> <<>>,
     remote |-> rem, calls |-> log]
Return(value, rem, log) ==
    [raised |-> FALSE, msg |-> <<>>, api_response |-> <<>>, value |-> value,
     remote |-> rem, calls |-> log]

\* raise ClouDNSError(msg, response)
RaiseWith(msg, response, rem, log) ==
    [Raise(msg, rem, log) EXCEPT !.api_response = <<response>>]

\* An entry of the call log: the call, and what call_operation r made of it.
Call(operation_id, params) == [op |-> operation_id, params |-> params]
Answered(c, r) ==
    [op |-> c.op, params |-> c.params, raised |-> r.raised, response |-> r.response]

Chars_Unknown == <<"U","n","k","n","o","w","n"," ","e","r","r","o","r">>

IsFailedStatus(response) ==
    /\ response.kind = "envelope"
    /\ Get(response.body, "status", None) \in {"Failed", "failed"}

\* Mutant: only the capitalised status is taken for a failure.
_check_response_Failed(response, operation_name, rem, log) ==
    IF response.kind = "envelope" /\ Get(response.body, "status", None) = "Failed"
    THEN LET desc == Get(response.body, "statusDescription", <<>>)
             message == IF desc # <<>> THEN desc
                        ELSE Get(response.body, "message", Chars_Unknown)
         IN  RaiseWith(<<operation_name, " failed: ", message>>, response, rem, log)
    ELSE Return(response, rem, log)

_check_response(response, operation_name, rem, log) ==
    IF IsFailedStatus(response)
    THEN LET desc == Get(response.body, "statusDescription", <<>>)
             \* response.get('statusDescription') or response.get('message', 'Unknown error')
             message == IF desc # <<>> THEN desc
                        ELSE Get(response.body, "message", Chars_Unknown)
         IN  RaiseWith(<<operation_name, " failed: ", message>>, response, rem, log)
    ELSE Return(response, rem, log)

_call(rem, operation_id, params, check_response, env, n) ==
    The({IF r.raised
         THEN Raise(<<"SwaggerClientError">>, r.remote,
                    <<Answered(Call(operation_id, params), r)>>)
         ELSE IF check_response
              THEN _check_response(r.response, operation_id, r.remote,
                                   <<Answered(Call(operation_id, params), r)>>)
              ELSE Return(r.response, r.remote,
                          <<Answered(Call(operation_id, params), r)>>) :
         r \in {call_operation(rem, operation_id, params, env, n)}})

\* 'no record' / 'not found'
Chars_no_record == <<"n","o"," ","r","e","c","o","r","d">>
Chars_not_found == <<"n","o","t"," ","f","o","u","n","d">>

\* bool(response) for a decoded body
TruthyBody(response) ==
    \/ response.kind = "envelope"
    \/ response.kind = "records" /\ response.items # <<>>

\* Mutant: the description is matched as it is, without lower().
list_result_cased(r) ==
    IF r.raised THEN r
    ELSE IF r.value.kind = "envelope" /\ Get(r.value.body, "status", None) = "Failed"
         THEN The({IF \/ Contains(desc, Chars_no_record)
                      \/ Contains(desc, Chars_not_found)
                   THEN Return(RecordsBody(<<>>), r.remote, r.calls)
                   ELSE RaiseWith(<<"List records failed: ", desc>>, r.value,
                                  r.remote, r.calls) :
                   desc \in {Get(r.value.body, "statusDescription", <<>>)}})
         ELSE Return(IF TruthyBody(r.value) THEN r.value ELSE RecordsBody(<<>>),
                     r.remote, r.calls)

\* What list_records makes of the body r.value that _call returned.
list_result(r) ==
    IF r.raised THEN r
    ELSE IF r.value.kind = "envelope" /\ Get(r.value.body, "status", None) = "Failed"
         THEN The({IF \/ Contains(Lower(desc), Chars_no_record)
                      \/ Contains(Lower(desc), Chars_not_found)
                   THEN Return(RecordsBody(<<>>), r.remote, r.calls)
                   ELSE RaiseWith(<<"List records failed: ", desc>>, r.value,
                                  r.remote, r.calls) :
                   desc \in {Get(r.value.body, "statusDescription", <<>>)}})
         ELSE Return(IF TruthyBody(r.value) THEN r.value ELSE RecordsBody(<<>>),
                     r.remote, r.calls)

\* The parameter bag of list_records.
list_params(domain_name, host, record_type) ==
    [k \in {"domain-name"} \cup (IF host # None THEN {"host"} ELSE {})
                           \cup (IF Truthy(record_type) THEN {"type"} ELSE {}) |->
        CASE k = "domain-name" -> domain_name
          [] k = "host" -> host
          [] k = "type" -> record_type]

\* Mutant: the listing of the previous invocation is kept and used again.
list_records_cached(rem, domain_name, host, record_type, env, n) ==
    IF invoked /\ existing # <<>>
    THEN Return(RecordsBody(existing[1]), rem, <<>>)
    ELSE The({list_result(r) :
              r \in {_call(rem, "dnsListRecords",
                           list_params(domain_name, host, record_type), FALSE, env, n)}})

list_records(rem, domain_name, host, record_type, env, n) ==
    The({list_result(r) :
         r \in {_call(rem, "dnsListRecords", list_params(domain_name, host, record_type),
                      FALSE, env, n)}})

\* val is None, for a value of any type
IsNone(val) == ToString(val) = ToString(None)

\* Mutant: every optional argument is placed in the bag, None or not.
Optional_all(table, given) ==
    [w \in {table[a] : a \in DOMAIN given \cap DOMAIN table} |->
        given[CHOOSE a \in DOMAIN given \cap DOMAIN table : table[a] = w]]

\* The loop over optional_params (or kwargs): an argument is placed in the
\* bag under its key when it is not None.  An argument left out of the call
\* is None by default.
Optional(table, given) ==
    [w \in {table[a] : a \in {x \in DOMAIN given \cap DOMAIN table : ~IsNone(given[x])}} |->
        given[CHOOSE a \in DOMAIN given \cap DOMAIN table :
                 table[a] = w /\ ~IsNone(given[a])]]

\* Mutant: the optional arguments are not placed in the bag.
add_record_bare(rem, domain_name, record_type, host, value, ttl, kwargs, env, n) ==
    _call(rem, "dnsAddRecord",
          [k \in {"domain-name", "record-type", "host", "record", "ttl"} |->
              CASE k = "domain-name" -> domain_name
                [] k = "record-type" -> record_type
                [] k = "host" -> host
                [] k = "record" -> value
                [] k = "ttl" -> ttl],
          TRUE, env, n)

\* A keyword argument that the signature of the method does not name.
TypeError(rem) ==
    [raised |-> TRUE, exception |-> "TypeError", msg |-> <<"TypeError">>,
     api_response |-> <<>>, value |-> <<>>, remote |-> rem, calls |-> <<>>]

add_record(rem, domain_name, record_type, host, value, ttl, kwargs, env, n) ==
    IF ~(DOMAIN kwargs \subseteq DOMAIN AddOptional) THEN TypeError(rem) ELSE
    LET api_params == [k \in {"domain-name", "record-type", "host", "record", "ttl"} |->
                          CASE k = "domain-name" -> domain_name
                            [] k = "record-type" -> record_type
                            [] k = "host" -> host
                            [] k = "record" -> value
                            [] k = "ttl" -> ttl]
        \* status defaults to 1
        given == Update([k \in {"status"} |-> 1], kwargs)
    IN  _call(rem, "dnsAddRecord", Update(api_params, Optional(AddOptional, given)), TRUE, env, n)

modify_record(rem, domain_name, record_id, host, value, ttl, kwargs, env, n) ==
    LET api_params == [k \in {"domain-name", "record-id", "host", "record", "ttl"} |->
                          CASE k = "domain-name" -> domain_name
                            [] k = "record-id" -> record_id
                            [] k = "host" -> host
                            [] k = "record" -> value
                            [] k = "ttl" -> ttl]
        named == Optional(ModifyOptional, kwargs)
        \* what is left in **kwargs
        rest == [a \in DOMAIN kwargs \ DOMAIN ModifyOptional |-> kwargs[a]]
    IN  _call(rem, "dnsModifyRecord",
              Update(Update(api_params, named), Optional(Dashed, rest)), TRUE, env, n)

delete_record(rem, domain_name, record_id, env, n) ==
    _call(rem, "dnsDeleteRecord",
          [k \in {"domain-name", "record-id"} |->
              IF k = "domain-name" THEN domain_name ELSE record_id],
          TRUE, env, n)

\* str.isdigit() for an ASCII string
isdigit(s) ==
    /\ Len(s) > 0
    /\ \A i \in 1..Len(s) : \E d \in 1..10 : DigitChars[d] = s[i]

\* Mutant: a sub-user id is taken for numeric when it begins with a digit.
auth_type_leading(auth_id, is_subuser) ==
    IF ~is_subuser THEN "auth-id"
    ELSE IF Len(auth_id) > 0 /\ isdigit(<<auth_id[1]>>) THEN "sub-auth-id"
    ELSE "sub-auth-user"

\* self.auth_type as __init__ determines it
auth_type(auth_id, is_subuser) ==
    IF ~is_subuser THEN "auth-id"
    ELSE IF isdigit(auth_id) THEN "sub-auth-id"
    ELSE "sub-auth-user"

\* self.auth_params
auth_params(auth_id, auth_password, is_subuser) ==
    [k \in {auth_type(auth_id, is_subuser), "auth-password"} |->
        IF k = "auth-password" THEN auth_password ELSE auth_id]

----------------------------------------------------------------------------
(* ClouDNSClient.ensure_record *)

\* The dict ensure_record starts from and the ways it leaves it.
Result0 == [changed |-> FALSE, msg |-> <<"">>, data |-> <<>>]

Failed(res, msg) == Put(Put(res, "failed", TRUE), "msg", msg)

Changed(res, msg, api_response) ==
    [res EXCEPT !.changed = TRUE, !.msg = msg, !.data = <<api_response>>]

\* What an invocation amounts to: the dict returned, the calls issued and the
\* zone afterwards.
Outcome(res, log, rem) == [result |-> res, calls |-> log, remote |-> rem]

\* An exception that no except clause of ensure_record catches: nothing is
\* returned, the caller sees the exception.
Uncaught(exception, log, rem) == Outcome([exception |-> exception], log, rem)

\* A value of the mapping list_records returned that is a str, not a dict.
PyStrValue(v) == [py_str |-> v]
IsDict(record) == "py_str" \notin DOMAIN record

\* existing.items() for the body list_records returned: the records of a
\* listing, or the keys and values of an envelope handed through.
Entries(body) ==
    IF body.kind = "records" THEN body.items
    ELSE [i \in 1..Cardinality(DOMAIN body.body) |->
            The({[id |-> k, rec |-> PyStrValue(body.body[k])] :
                 k \in {IF i = 1 THEN "status"
                        ELSE CHOOSE x \in DOMAIN body.body : x # "status"}})]

\* record.get('record') raises AttributeError in the matching loop: an entry
\* that is not a dict comes before any entry whose record equals value.
GetRaises(items, value) ==
    \E i \in 1..Len(items) :
        /\ ~IsDict(items[i].rec)
        /\ \A j \in 1..(i - 1) : Get(items[j].rec, "record", None) # value

\* Mutant: the loop does not filter by value.
Skips_never(value, record) == FALSE

\* The filter of the state == 'absent' loop: the record is left alone.
Skips(value, record) == Truthy(value) /\ Get(record, "record", None) # value

\* The position of the first item whose record equals value; 0 when none does.
FirstMatch(items, value) ==
    IF \E i \in 1..Len(items) : Get(items[i].rec, "record", None) = value
    THEN CHOOSE i \in 1..Len(items) :
            /\ Get(items[i].rec, "record", None) = value
            /\ \A j \in 1..(i - 1) : Get(items[j].rec, "record", None) # value
    ELSE 0

\* Mutant: the ttl is read under a key the record does not have.
CurrentTtl_default(record) == 0

\* int(record.get('ttl', 0))
CurrentTtl(record) == IF "ttl" \in DOMAIN record THEN PyInt(record["ttl"]) ELSE 0

\* What ensure_record makes of a mutating call r issued after the calls of log.
AfterModify(r, msg, log) ==
    IF "exception" \in DOMAIN r THEN Uncaught(r.exception, log, r.remote)
    ELSE IF r.raised THEN Outcome(Failed(Result0, r.msg), log \o r.calls, r.remote)
    ELSE Outcome(Changed(Result0, msg, r.value), log \o r.calls, r.remote)

\* Mutant: the update goes to the first listed record, not to the matching one.
ensure_matching_first_id(rem, items, m, log, domain_name, host, value, ttl, kwargs, env) ==
    IF CurrentTtl(items[m].rec) # ttl
    THEN The({AfterModify(r, <<"Record updated (TTL changed from ",
                               PyStr(CurrentTtl(items[m].rec)),
                               " to ", PyStr(ttl), ")">>, log) :
              r \in {modify_record(rem, domain_name, items[1].id, host, value, ttl,
                                   kwargs, env, 2)}})
    ELSE Outcome([Result0 EXCEPT !.msg =
                     <<"Record already exists with correct value and TTL">>],
                 log, rem)

\* Mutant: the ttls are compared as strings, without int().
ensure_matching_str(rem, items, m, log, domain_name, host, value, ttl, kwargs, env) ==
    IF Get(items[m].rec, "ttl", <<"0">>) # PyStr(ttl)
    THEN The({AfterModify(r, <<"Record updated (TTL changed from ",
                               PyStr(CurrentTtl(items[m].rec)),
                               " to ", PyStr(ttl), ")">>, log) :
              r \in {modify_record(rem, domain_name, items[m].id, host, value, ttl,
                                   kwargs, env, 2)}})
    ELSE Outcome([Result0 EXCEPT !.msg =
                     <<"Record already exists with correct value and TTL">>],
                 log, rem)

\* The branch taken when items[m] is the first item whose record equals value.
\* Mutant: a matching record whose extra attributes are not the ones given
\* is updated too.
ensure_matching_extras(rem, items, m, log, domain_name, host, value, ttl, kwargs, env) ==
    IF \/ CurrentTtl(items[m].rec) # ttl
       \/ \E k \in DOMAIN kwargs : Get(items[m].rec, k, 0) # kwargs[k]
    THEN The({AfterModify(r, <<"Record updated (TTL changed from ",
                               PyStr(CurrentTtl(items[m].rec)),
                               " to ", PyStr(ttl), ")">>, log) :
              r \in {modify_record(rem, domain_name, items[m].id, host, value, ttl,
                                   kwargs, env, 2)}})
    ELSE Outcome([Result0 EXCEPT !.msg =
                     <<"Record already exists with correct value and TTL">>],
                 log, rem)

ensure_matching(rem, items, m, log, domain_name, host, value, ttl, kwargs, env) ==
    IF CurrentTtl(items[m].rec) # ttl
    THEN The({AfterModify(r, <<"Record updated (TTL changed from ",
                               PyStr(CurrentTtl(items[m].rec)),
                               " to ", PyStr(ttl), ")">>, log) :
              r \in {modify_record(rem, domain_name, items[m].id, host, value, ttl,
                                   kwargs, env, 2)}})
    ELSE Outcome([Result0 EXCEPT !.msg =
                     <<"Record already exists with correct value and TTL">>],
                 log, rem)

\* Mutant: a lone record with another value is left and a new one is added.
ensure_unmatched_adds(rem, items, log, domain_name, host, record_type, value, ttl, kwargs, env) ==
    IF Len(items) <= 1
    THEN The({AfterModify(r, <<"Record created">>, log) :
              r \in {add_record(rem, domain_name, record_type, host, value, ttl,
                                kwargs, env, 2)}})
    ELSE Outcome(Failed(Result0,
                    <<"Multiple records found for ", host, ".", domain_name, " (",
                      record_type, "). ",
                      "Cannot determine which to update. Please delete extras first.">>),
                 log, rem)

\* Mutant: with no match, the first listed record is updated however many there are.
ensure_unmatched_first(rem, items, log, domain_name, host, record_type, value, ttl, kwargs, env) ==
    IF Len(items) >= 1
    THEN The({AfterModify(r, <<"Record updated with new value">>, log) :
              r \in {modify_record(rem, domain_name, items[1].id, host, value, ttl,
                                   kwargs, env, 2)}})
    ELSE The({AfterModify(r, <<"Record created">>, log) :
              r \in {add_record(rem, domain_name, record_type, host, value, ttl,
                                kwargs, env, 2)}})

\* Mutant: a lone record with another value is deleted and a new one added.
ensure_unmatched_replaces(rem, items, log, domain_name, host, record_type, value, ttl, kwargs, env) ==
    IF Len(items) = 1
    THEN The({IF d.raised
              THEN Outcome(Failed(Result0, d.msg), log \o d.calls, d.remote)
              ELSE The({AfterModify(r, <<"Record updated with new value">>,
                                    log \o d.calls) :
                        r \in {add_record(d.remote, domain_name, record_type, host,
                                          value, ttl, kwargs, env, 3)}}) :
              d \in {delete_record(rem, domain_name, items[1].id, env, 2)}})
    ELSE IF Len(items) = 0
    THEN The({AfterModify(r, <<"Record created">>, log) :
              r \in {add_record(rem, domain_name, record_type, host, value, ttl,
                                kwargs, env, 2)}})
    ELSE Outcome(Failed(Result0,
                    <<"Multiple records found for ", host, ".", domain_name, " (",
                      record_type, "). ",
                      "Cannot determine which to update. Please delete extras first.">>),
                 log, rem)

\* The branch taken when no item's record equals value.
ensure_unmatched(rem, items, log, domain_name, host, record_type, value, ttl, kwargs, env) ==
    IF Len(items) = 1
    THEN The({AfterModify(r, <<"Record updated with new value">>, log) :
              r \in {modify_record(rem, domain_name, items[1].id, host, value, ttl,
                                   kwargs, env, 2)}})
    ELSE IF Len(items) = 0
    THEN The({AfterModify(r, <<"Record created">>, log) :
              r \in {add_record(rem, domain_name, record_type, host, value, ttl,
                                kwargs, env, 2)}})
    ELSE Outcome(Failed(Result0,
                    <<"Multiple records found for ", host, ".", domain_name, " (",
                      record_type, "). ",
                      "Cannot determine which to update. Please delete extras first.">>),
                 log, rem)

\* state == 'present'
ensure_present(rem, items, log, domain_name, host, record_type, value, ttl, kwargs, env) ==
    IF ~Truthy(value)
    THEN Outcome(Failed(Result0, <<"Value is required when state is 'present'">>), log, rem)
    ELSE IF GetRaises(items, value)
    THEN Uncaught("AttributeError", log, rem)
    ELSE The({IF m # 0
              THEN ensure_matching(rem, items, m, log, domain_name, host, value, ttl,
                                   kwargs, env)
              ELSE ensure_unmatched(rem, items, log, domain_name, host, record_type,
                                    value, ttl, kwargs, env) :
              m \in {FirstMatch(items, value)}})

RECURSIVE delete_loop_continues(_, _, _, _, _, _, _, _)
\* Mutant: the loop goes on to the next record after a delete that failed.
delete_loop_continues(rem, items, i, deleted_count, log, domain_name, value, env) ==
    IF i > Len(items)
    THEN [raised |-> FALSE, uncaught |-> FALSE, msg |-> <<>>,
          deleted_count |-> deleted_count, calls |-> log, remote |-> rem]
    ELSE IF Truthy(value) /\ ~IsDict(items[i].rec)
    THEN [raised |-> TRUE, uncaught |-> TRUE, msg |-> <<"AttributeError">>,
          deleted_count |-> deleted_count, calls |-> log, remote |-> rem]
    ELSE IF Skips(value, items[i].rec)
    THEN delete_loop_continues(rem, items, i + 1, deleted_count, log, domain_name,
                               value, env)
    ELSE The({IF r.raised
              THEN The({[d EXCEPT !.raised = TRUE, !.msg = r.msg] :
                        d \in {delete_loop_continues(r.remote, items, i + 1,
                                                     deleted_count, log \o r.calls,
                                                     domain_name, value, env)}})
              ELSE delete_loop_continues(r.remote, items, i + 1, deleted_count + 1,
                                         log \o r.calls, domain_name, value, env) :
              r \in {delete_record(rem, domain_name, items[i].id, env, Len(log) + 1)}})

RECURSIVE delete_loop(_, _, _, _, _, _, _, _)
\* The for loop of state == 'absent' from item i on, deleted_count deletions
\* and the calls of log made so far: [raised, msg, deleted_count, calls, remote].
delete_loop(rem, items, i, deleted_count, log, domain_name, value, env) ==
    IF i > Len(items)
    THEN [raised |-> FALSE, uncaught |-> FALSE, msg |-> <<>>,
          deleted_count |-> deleted_count, calls |-> log, remote |-> rem]
    ELSE IF Truthy(value) /\ ~IsDict(items[i].rec)
    THEN [raised |-> TRUE, uncaught |-> TRUE, msg |-> <<"AttributeError">>,
          deleted_count |-> deleted_count, calls |-> log, remote |-> rem]
    ELSE IF Skips(value, items[i].rec)
    THEN delete_loop(rem, items, i + 1, deleted_count, log, domain_name, value, env)
    ELSE The({IF r.raised
              THEN [raised |-> TRUE, uncaught |-> FALSE, msg |-> r.msg,
                    deleted_count |-> deleted_count,
                    calls |-> log \o r.calls, remote |-> r.remote]
              ELSE delete_loop(r.remote, items, i + 1, deleted_count + 1,
                               log \o r.calls, domain_name, value, env) :
              r \in {delete_record(rem, domain_name, items[i].id, env, Len(log) + 1)}})

\* What ensure_record makes of the loop's end d.
AfterDeletes(d) ==
    IF d.uncaught THEN Uncaught("AttributeError", d.calls, d.remote)
    ELSE IF d.raised THEN Outcome(Failed(Result0, d.msg), d.calls, d.remote)
    ELSE IF d.deleted_count > 0
    THEN Outcome([Result0 EXCEPT !.changed = TRUE,
                                 !.msg = <<"Deleted ", PyStr(d.deleted_count),
                                           " record(s)">>],
                 d.calls, d.remote)
    ELSE Outcome([Result0 EXCEPT !.msg = <<"No matching records to delete">>],
                 d.calls, d.remote)

\* Mutant: state == 'absent' reports a change whatever it found.
ensure_absent_changed(rem, items, log, domain_name, value, env) ==
    The({Outcome([Result0 EXCEPT !.changed = TRUE,
                                 !.msg = <<"Deleted ", PyStr(d.deleted_count),
                                           " record(s)">>],
                 d.calls, d.remote) :
         d \in {delete_loop(rem, items, 1, 0, log, domain_name, value, env)}})

\* state == 'absent'
ensure_absent(rem, items, log, domain_name, value, env) ==
    IF items = <<>>
    THEN Outcome([Result0 EXCEPT !.msg = <<"Record does not exist">>], log, rem)
    ELSE The({AfterDeletes(d) :
              d \in {delete_loop(rem, items, 1, 0, log, domain_name, value, env)}})

\* Mutant: every state other than 'present' is handled as 'absent'.
ensure_listed_else_absent(l, domain_name, host, record_type, value, ttl, state, kwargs, env) ==
    IF l.raised THEN Outcome(Failed(Result0, l.msg), l.calls, l.remote)
    ELSE IF state = "present"
    THEN ensure_present(l.remote, Entries(l.value), l.calls, domain_name, host,
                        record_type, value, ttl, kwargs, env)
    ELSE ensure_absent(l.remote, Entries(l.value), l.calls, domain_name, value, env)

\* The body of ensure_record once list_records has returned or raised l.
ensure_listed(l, domain_name, host, record_type, value, ttl, state, kwargs, env) ==
    IF l.raised THEN Outcome(Failed(Result0, l.msg), l.calls, l.remote)
    ELSE IF state = "present"
    THEN ensure_present(l.remote, Entries(l.value), l.calls, domain_name, host,
                        record_type, value, ttl, kwargs, env)
    ELSE IF state = "absent"
    THEN ensure_absent(l.remote, Entries(l.value), l.calls, domain_name, value, env)
    ELSE Outcome(Failed(Result0, <<"Invalid state: ", state>>), l.calls, l.remote)

ensure_record(rem, domain_name, host, record_type, value, ttl, state, kwargs, env) ==
    The({The({[result |-> o.result, calls |-> o.calls, remote |-> o.remote,
               existing |-> IF l.raised THEN <<>> ELSE <<Entries(l.value)>>] :
              o \in {ensure_listed(l, domain_name, host, record_type, value, ttl,
                                   state, kwargs, env)}}) :
         l \in {list_records(rem, domain_name, host, record_type, env, 1)}})

----------------------------------------------------------------------------
(* The state machine *)

\* A record of a reconciled host as the remote lists it; the API may omit ttl.
RemoteRecords ==
    [host : Hosts, type : Types, record : Values, ttl : TtlStrings]
    \cup [host : Hosts, type : Types, record : Values]
    \cup OtherRecords
    \cup ExtraRecords

RECURSIVE WithIds(_, _)
\* The records of recs with the ids n+1, n+2, ...
WithIds(recs, n) ==
    IF recs = <<>> THEN <<>>
    ELSE <<Put(Head(recs), "id", RecordId(n + 1))>> \o WithIds(Tail(recs), n + 1)

Zones == UNION {[1..n -> RemoteRecords] : n \in 0..MaxRecs}

NoArgs ==
    [domain_name |-> None, host |-> None, record_type |-> None, value |-> None,
     ttl |-> 0, state |-> None, kwargs |-> EmptyDict]

\* No client method has been called directly.
NoReturn == [method |-> None]

\* No client has been constructed.
NoClient == [auth_params |-> None]

\* The concurrent tasks, and a task that is not inside ensure_record.
Procs == {1, 2}
Idle == [pc |-> "idle"]

Init ==
    /\ remote \in {WithIds(z, 0) : z \in Zones}
    /\ args = NoArgs
    /\ result = Result0
    /\ calls = <<>>
    /\ existing = <<>>
    /\ invoked = FALSE
    /\ repeat = FALSE
    /\ returned = NoReturn
    /\ tasks = [p \in Procs |-> Idle]
    /\ client = NoClient

\* client.ensure_record(**a) against a remote that answers as env says.
Invoke(a, env) ==
    \E out \in {ensure_record(remote, a.domain_name, a.host, a.record_type, a.value,
                              a.ttl, a.state, a.kwargs, env)} :
        /\ remote' = out.remote
        /\ args' = a
        /\ result' = out.result
        /\ calls' = out.calls
        /\ existing' = out.existing
        /\ invoked' = TRUE

\* run_with_swagger_client: a task invokes ensure_record with its parameters.
EnsureRecord ==
    /\ ~invoked
    /\ \E domain_name \in Domains, host \in Hosts, record_type \in Types,
          value \in ValueArgs, ttl \in Ttls, state \in StateArgs,
          kwargs \in KwargsArgs, env \in NominalEnvs :
            Invoke([domain_name |-> domain_name, host |-> host,
                    record_type |-> record_type, value |-> value, ttl |-> ttl,
                    state |-> state, kwargs |-> kwargs], env)
    /\ repeat' = FALSE
    /\ UNCHANGED <<returned, tasks, client>>

\* The same task is run again: ensure_record with identical arguments.
EnsureAgain ==
    /\ invoked
    /\ \E env \in NominalEnvs : Invoke(args, env)
    /\ repeat' = result.changed
    /\ UNCHANGED <<returned, tasks, client>>

\* module.exit_json / module.fail_json: the result is handed over and nothing
\* of the invocation is kept.
Exit ==
    /\ invoked
    /\ args' = NoArgs
    /\ result' = Result0
    /\ calls' = <<>>
    /\ existing' = <<>>
    /\ invoked' = FALSE
    /\ repeat' = FALSE
    /\ UNCHANGED <<remote, returned, tasks, client>>

Next == EnsureRecord \/ EnsureAgain \/ Exit

Spec == Init /\ [][Next]_vars

----------------------------------------------------------------------------
(* The same task against a remote that may fail one call of the invocation *)

\* The remote answers every call, an empty listing in any of its forms.
AnsweringEnvs ==
    [empty : {"object", "failed", "notfound", "null"}, fail : {0}, mode : {"status"}]

\* One call of the invocation is not carried out: it is answered with a
\* Failed or failed envelope, or the transport gives up (SwaggerClientError).
\* An invocation issues at most one call per listed record after the list
\* call.
FailingEnvs ==
    [empty : {"object"}, fail : 1..(MaxRecs + 1), mode : {"status", "failed", "transport"}]

EnsureRecordFailing ==
    /\ ~invoked
    /\ \E domain_name \in Domains, host \in Hosts, record_type \in Types,
          value \in ValueArgs, ttl \in Ttls, state \in StateArgs,
          env \in AnsweringEnvs \cup FailingEnvs :
            Invoke([domain_name |-> domain_name, host |-> host,
                    record_type |-> record_type, value |-> value, ttl |-> ttl,
                    state |-> state, kwargs |-> EmptyDict], env)
    /\ repeat' = FALSE
    /\ UNCHANGED <<returned, tasks, client>>

NextF == EnsureRecordFailing \/ Exit

SpecF == Init /\ [][NextF]_vars

----------------------------------------------------------------------------
(* Concurrent tasks: two module runs reconcile records of the same zone.    *)
(* Between the list call of ensure_record and the calls that follow it the  *)
(* other task may take its steps.                                           *)

\* Largest number of records the zone holds when the tasks start.
MaxRecsC == 1

HostsC == {"www", "mail"}

RemoteRecordsC == [host : HostsC, type : Types, record : Values, ttl : {<<"6", "0">>}]

ZonesC == UNION {[1..n -> RemoteRecordsC] : n \in 0..MaxRecsC}

TaskArgs ==
    [domain_name : Domains, host : HostsC, record_type : Types, value : Values,
     ttl : {60}, state : {"present", "absent"}, kwargs : {EmptyDict}]

InitC ==
    /\ remote \in {WithIds(z, 0) : z \in ZonesC}
    /\ args = NoArgs
    /\ result = Result0
    /\ calls = <<>>
    /\ existing = <<>>
    /\ invoked = FALSE
    /\ repeat = FALSE
    /\ returned = NoReturn
    /\ tasks = [p \in Procs |-> Idle]
    /\ client = NoClient

\* Task p enters ensure_record and its list call returns (line 952).
TaskLists(p) ==
    /\ tasks[p].pc = "idle"
    /\ \E a \in TaskArgs, env \in {e \in NominalEnvs : e.empty = "object"} :
          \E l \in {list_records(remote, a.domain_name, a.host, a.record_type, env, 1)} :
              tasks' = [tasks EXCEPT ![p] = [pc |-> "listed", args |-> a, listed |-> l]]
    /\ UNCHANGED <<remote, args, result, calls, existing, invoked, repeat, returned, client>>

\* Mutant: the task lists the zone again before it acts.
TaskActs_rereads(p) ==
    /\ tasks[p].pc = "listed"
    /\ \E env \in NominalEnvs :
          \E o \in {ensure_record(remote, tasks[p].args.domain_name, tasks[p].args.host,
                                  tasks[p].args.record_type, tasks[p].args.value,
                                  tasks[p].args.ttl, tasks[p].args.state,
                                  tasks[p].args.kwargs, env)} :
              /\ remote' = o.remote
              /\ tasks' = [tasks EXCEPT ![p] =
                              [pc |-> "done", args |-> tasks[p].args,
                               listed |-> tasks[p].listed,
                               result |-> o.result, calls |-> o.calls]]
    /\ UNCHANGED <<args, result, calls, existing, invoked, repeat, returned, client>>

\* Task p runs the rest of ensure_record (lines 954-1045) from what it listed,
\* against the zone as it is now.
TaskActs(p) ==
    /\ tasks[p].pc = "listed"
    /\ \E env \in NominalEnvs :
          \E o \in {ensure_listed([tasks[p].listed EXCEPT !.remote = remote],
                                  tasks[p].args.domain_name, tasks[p].args.host,
                                  tasks[p].args.record_type, tasks[p].args.value,
                                  tasks[p].args.ttl, tasks[p].args.state,
                                  tasks[p].args.kwargs, env)} :
              /\ remote' = o.remote
              /\ tasks' = [tasks EXCEPT ![p] =
                              [pc |-> "done", args |-> tasks[p].args,
                               listed |-> tasks[p].listed,
                               result |-> o.result, calls |-> o.calls]]
    /\ UNCHANGED <<args, result, calls, existing, invoked, repeat, returned, client>>

\* Both tasks have returned; two other tasks may start.
TasksExit ==
    /\ \A p \in Procs : tasks[p].pc = "done"
    /\ tasks' = [p \in Procs |-> Idle]
    /\ UNCHANGED <<remote, args, result, calls, existing, invoked, repeat, returned, client>>

NextC == (\E p \in Procs : TaskLists(p) \/ TaskActs(p)) \/ TasksExit

SpecC == InitC /\ [][NextC]_vars

----------------------------------------------------------------------------
(* The methods of the client called one at a time *)

\* The remote answers every call, or does not carry the call out and
\* answers with one of the failure bodies or a transport error.
CallEnvs ==
    AnsweringEnvs
    \cup [empty : {"object"}, fail : {1},
          mode : {"status", "failed", "message", "bare", "nodesc", "transport"}]

\* auth_id as the module passes it: a str.
AuthIds ==
    {<<"1", "2", "3", "4">>, <<"0">>, <<"b", "o", "b">>, <<"1", "2", "a">>,
     <<"x", "9">>, <<>>}
Passwords == {"secret"}

\* ClouDNSClient(auth_id, auth_password, is_subuser)
Construct ==
    /\ \E auth_id \in AuthIds, auth_password \in Passwords, is_subuser \in BOOLEAN :
          returned' = [method |-> "__init__", auth_id |-> auth_id,
                       auth_password |-> auth_password, is_subuser |-> is_subuser,
                       auth_type |-> auth_type(auth_id, is_subuser),
                       auth_params |-> auth_params(auth_id, auth_password, is_subuser)]
    /\ UNCHANGED <<remote, args, result, calls, existing, invoked, repeat, tasks, client>>

\* client.list_records(domain_name, host, record_type)
ListRecords ==
    /\ \E domain_name \in Domains, host \in Hosts \cup {"mail", None},
          record_type \in Types \cup {None}, env \in CallEnvs :
          \E out \in {list_records(remote, domain_name, host, record_type, env, 1)} :
              /\ returned' = [method |-> "list_records", out |-> out]
              /\ remote' = out.remote
    /\ UNCHANGED <<args, result, calls, existing, invoked, repeat, tasks, client>>

\* client._call(operation_id, params, check_response) for a list or a delete
CallOperation ==
    /\ \E domain_name \in Domains, check_response \in BOOLEAN, env \in CallEnvs :
       \E c \in {Call("dnsListRecords", list_params(domain_name, h, None)) :
                    h \in Hosts \cup {"mail"}}
               \cup {Call("dnsDeleteRecord",
                          [k \in {"domain-name", "record-id"} |->
                              IF k = "domain-name" THEN domain_name ELSE RecordId(i)]) :
                     i \in 1..(MaxRecsC + 1)} :
          \E out \in {_call(remote, c.op, c.params, check_response, env, 1)} :
              /\ returned' = [method |-> "_call", check_response |-> check_response,
                              out |-> out]
              /\ remote' = out.remote
    /\ UNCHANGED <<args, result, calls, existing, invoked, repeat, tasks, client>>

NextM == Construct \/ ListRecords \/ CallOperation

SpecM == InitC /\ [][NextM]_vars

----------------------------------------------------------------------------
(* One client over its lifetime: construction, then calls *)

\* The attributes __init__ assigns to self.
__init__(auth_id, auth_password, is_subuser) ==
    [auth_id |-> auth_id, auth_password |-> auth_password, is_subuser |-> is_subuser,
     auth_type |-> auth_type(auth_id, is_subuser),
     auth_params |-> auth_params(auth_id, auth_password, is_subuser)]

\* Mutant: the call's parameters are merged into the client's auth
\* parameters instead of the other way round.
_call_self_merged(self, operation_id, params) ==
    [self EXCEPT !.auth_params = Update(@, params)]

\* self after _call(operation_id, params): the method reads self._client and
\* assigns no attribute.
_call_self(self, operation_id, params) == self

\* How the remote answers a call of the client: it carries it out, refuses it
\* or cannot be reached.
LifetimeEnvs ==
    {[empty |-> "object", fail |-> 0, mode |-> "status"],
     [empty |-> "object", fail |-> 1, mode |-> "status"],
     [empty |-> "object", fail |-> 1, mode |-> "transport"]}

\* client = ClouDNSClient(auth_id, auth_password, is_subuser)
ConstructClient ==
    /\ \E auth_id \in AuthIds, auth_password \in Passwords, is_subuser \in BOOLEAN :
          /\ client' = __init__(auth_id, auth_password, is_subuser)
          /\ returned' = [method |-> "__init__", auth_id |-> auth_id,
                          auth_password |-> auth_password, is_subuser |-> is_subuser,
                          auth_type |-> client'.auth_type,
                          auth_params |-> client'.auth_params]
    /\ UNCHANGED <<remote, args, result, calls, existing, invoked, repeat, tasks>>

\* A method of the constructed client makes its call: list_records,
\* add_record or delete_record.
ClientCalls ==
    /\ client # NoClient
    /\ \E domain_name \in Domains, env \in LifetimeEnvs :
       \E out \in {list_records(remote, domain_name, "www", "A", env, 1),
                    delete_record(remote, domain_name, RecordId(1), env, 1)}
                   \cup (IF Len(remote) <= MaxRecsC
                         THEN {add_record(remote, domain_name, "A", "www", "1.2.3.4", 60,
                                          EmptyDict, env, 1)}
                         ELSE {}) :
              /\ returned' = [method |-> "_call", out |-> out]
              /\ remote' = out.remote
              /\ client' = _call_self(client, out.calls[1].op, out.calls[1].params)
    /\ UNCHANGED <<args, result, calls, existing, invoked, repeat, tasks>>

NextK == ConstructClient \/ ClientCalls

SpecK == InitC /\ [][NextK]_vars

----------------------------------------------------------------------------
(* The record methods of one client called with optional arguments *)

\* Optional arguments as a caller of add_record, modify_record or
\* ensure_record may give them: left out, None, extras of special record
\* types, and a name that no signature declares.  The values are given
\* as str.
ExtraArgs ==
    {EmptyDict,
     [k \in {"priority"} |-> "10"],
     [k \in {"priority"} |-> None],
     [k \in {"priority", "key_tag"} |-> IF k = "priority" THEN None ELSE "7"],
     [k \in {"tlsa_usage"} |-> "3"],
     [k \in {"caa_flag"} |-> "0"],
     [k \in {"comment"} |-> "x"]}

\* A client has been constructed.
InitB ==
    /\ remote \in {WithIds(z, 0) : z \in ZonesC}
    /\ args = NoArgs
    /\ result = Result0
    /\ calls = <<>>
    /\ existing = <<>>
    /\ invoked = FALSE
    /\ repeat = FALSE
    /\ returned = NoReturn
    /\ tasks = [p \in Procs |-> Idle]
    /\ client = __init__(<<"b", "o", "b">>, "secret", TRUE)

\* The remote answers every call.
Answering == [empty |-> "object", fail |-> 0, mode |-> "status"]

\* client.list_records(domain_name, host, record_type), the filters given or
\* left out
ListRecordsCall ==
    /\ \E domain_name \in Domains, host \in Hosts \cup {None},
          record_type \in Types \cup {None} :
          \E out \in {list_records(remote, domain_name, host, record_type, Answering, 1)} :
              /\ returned' = [method |-> "list_records", kwargs |-> EmptyDict,
                              out |-> out]
              /\ remote' = out.remote
              /\ client' = _call_self(client, "dnsListRecords",
                                      list_params(domain_name, host, record_type))
    /\ UNCHANGED <<args, result, calls, existing, invoked, repeat, tasks>>

\* client.add_record(domain_name, record_type, host, value, ttl, **kwargs)
AddRecord ==
    /\ Len(remote) <= MaxRecsC
    /\ \E domain_name \in Domains, record_type \in Types, host \in Hosts,
          kwargs \in ExtraArgs :
          \E out \in {add_record(remote, domain_name, record_type, host, "1.2.3.4", 60,
                                 kwargs, Answering, 1)} :
              /\ returned' = [method |-> "add_record", kwargs |-> kwargs, out |-> out]
              /\ remote' = out.remote
              /\ client' = IF out.calls = <<>> THEN client
                            ELSE _call_self(client, out.calls[1].op, out.calls[1].params)
    /\ UNCHANGED <<args, result, calls, existing, invoked, repeat, tasks>>

\* client.modify_record(domain_name, record_id, host, value, ttl, **kwargs)
ModifyRecord ==
    \E domain_name \in Domains, i \in 1..(MaxRecsC + 1), host \in Hosts,
       kwargs \in ExtraArgs :
       \E out \in {modify_record(remote, domain_name, RecordId(i), host, "1.2.3.4", 60,
                                 kwargs, Answering, 1)} :
           /\ returned' = [method |-> "modify_record", kwargs |-> kwargs, out |-> out]
           /\ remote' = out.remote
           /\ client' = _call_self(client, out.calls[1].op, out.calls[1].params)
           /\ UNCHANGED <<args, result, calls, existing, invoked, repeat, tasks>>

\* client.ensure_record(domain_name, host, record_type, value, ttl, state,
\* **kwargs)
EnsureRecordCall ==
    /\ Len(remote) <= MaxRecsC
    /\ \E domain_name \in Domains, host \in Hosts, record_type \in Types,
          value \in Values, ttl \in Ttls, kwargs \in ExtraArgs :
          \E out \in {ensure_record(remote, domain_name, host, record_type, value, ttl,
                                    "present", kwargs, Answering)} :
              /\ returned' = [method |-> "ensure_record", kwargs |-> kwargs, out |-> out]
              /\ remote' = out.remote
              /\ client' = client
    /\ UNCHANGED <<args, result, calls, existing, invoked, repeat, tasks>>

NextB == ListRecordsCall \/ AddRecord \/ ModifyRecord \/ EnsureRecordCall

SpecB == InitB /\ [][NextB]_vars

----------------------------------------------------------------------------
(* plugins/modules/record.py: run_with_php, the legacy subprocess path.     *)
(* A text is [literal, text]: the part the module writes itself and the     *)
(* part that comes from the child or from a number, as a tuple of           *)
(* characters.                                                              *)

Text(chars) == [literal |-> "", text |-> chars]
Literal(str) == [literal |-> str, text |-> <<>>]

\* module.params['auth_password']
PhpPassword == <<"p", "w">>

\* What the child may write to stdout or stderr when it does not write JSON.
ChildTexts ==
    {<<>>, <<"x">>, <<"p", "w">>, <<"x", "p", "w", "x">>, <<"p", "p", "w">>,
     <<"p", "w", "p", "w">>}

\* The JSON objects the wrapper may write: a result, a failed result without
\* and with a msg.
ChildResults ==
    {[k \in {"changed", "msg"} |-> IF k = "changed" THEN TRUE ELSE Text(t)] :
        t \in {<<"x">>, <<"x", "p", "w", "x">>}}
    \cup {[k \in {"failed", "error"} |-> IF k = "failed" THEN TRUE ELSE Text(t)] :
            t \in {<<"x">>, <<"p", "w">>}}
    \cup {[k \in {"failed", "msg"} |-> IF k = "failed" THEN TRUE ELSE Text(t)] :
            t \in {<<"x">>, <<"p", "w">>}}

\* stdout of the child: text that is not JSON, a JSON object, or a JSON list.
ChildStdout ==
    [kind : {"text"}, text : ChildTexts]
    \cup [kind : {"object"}, value : ChildResults]
    \cup {[kind |-> "list"]}

\* The characters of stdout as the module holds them.
StdoutText(stdout) ==
    CASE stdout.kind = "text" -> Text(stdout.text)
      [] stdout.kind = "object" ->
            Text(The({v.text : v \in {stdout.value[k] :
                                        k \in DOMAIN stdout.value \ {"changed", "failed"}}}))
      [] stdout.kind = "list" -> Text(<<"[", "]">>)

RECURSIVE replace(_, _, _)
\* str.replace(old, new) for a non-empty old
replace(str, old, new) ==
    IF Len(str) < Len(old) THEN str
    ELSE IF SubSeq(str, 1, Len(old)) = old
    THEN new \o replace(SubSeq(str, Len(old) + 1, Len(str)), old, new)
    ELSE <<Head(str)>> \o replace(Tail(str), old, new)

Stars == <<"*", "*", "*", "*", "*", "*", "*", "*">>

\* module.fail_json(**kwargs) / module.exit_json(**kwargs)
fail_json(kwargs) == [exit |-> "fail_json", kwargs |-> kwargs]
exit_json(kwargs) == [exit |-> "exit_json", kwargs |-> kwargs]

\* safe_stderr of the rc != 0 branch
safe_stderr(stderr) ==
    IF Contains(stderr, PhpPassword) THEN replace(stderr, PhpPassword, Stars)
    ELSE stderr

\* run_with_php from module.run_command on: what the module exits with.
run_with_php(rc, stdout, stderr) ==
    IF rc # 0
    THEN fail_json([k \in {"msg", "stderr", "stdout"} |->
                      CASE k = "msg" ->
                              [literal |-> "Script execution failed with error code ",
                               text |-> PyStr(rc)]
                        [] k = "stderr" -> Text(safe_stderr(stderr))
                        [] k = "stdout" -> StdoutText(stdout)])
    ELSE IF stdout.kind = "text"
    THEN \* json.loads raises ValueError
         fail_json([k \in {"msg", "output", "stderr"} |->
                      CASE k = "msg" -> Literal("Failed to parse JSON response from script")
                        [] k = "output" -> StdoutText(stdout)
                        [] k = "stderr" -> Text(stderr)])
    ELSE IF stdout.kind = "list"
    THEN \* result.get raises AttributeError, caught by except Exception
         fail_json([k \in {"msg"} |->
                      Literal("Exception while running script: 'list' object has no attribute 'get'")])
    ELSE IF Get(stdout.value, "failed", FALSE)
    THEN IF "msg" \in DOMAIN stdout.value
         THEN \* fail_json(msg=..., **result) with msg given twice: TypeError
              fail_json([k \in {"msg"} |->
                           Literal("Exception while running script: fail_json() got multiple values for keyword argument 'msg'")])
         ELSE fail_json(Put(stdout.value, "msg", Literal("Unknown error")))
    ELSE exit_json(stdout.value)

\* The preparation of the run: the injected contents and the check of the
\* interpreter (php -v or docker --version).
PhpChecks == {"ok", "CalledProcessError", "OSError"}

InitP ==
    /\ remote = <<>>
    /\ args = NoArgs
    /\ result = Result0
    /\ calls = <<>>
    /\ existing = <<>>
    /\ invoked = FALSE
    /\ repeat = FALSE
    /\ returned = NoReturn
    /\ tasks = [p \in Procs |-> Idle]
    /\ client = NoClient

\* run_with_php up to the prepared command (lines 369-439)
PhpPrepare ==
    /\ IF returned.method = None THEN TRUE ELSE returned.pc = "exit"
    /\ \E content \in BOOLEAN, use_docker \in BOOLEAN, check \in PhpChecks :
          returned' =
              IF ~content
              THEN [method |-> "run_with_php", pc |-> "exit", use_docker |-> use_docker,
                    out |-> fail_json([k \in {"msg"} |->
                               Literal("PHP module content missing.")])]
              ELSE IF check # "ok"
              THEN [method |-> "run_with_php", pc |-> "exit", use_docker |-> use_docker,
                    out |-> fail_json([k \in {"msg"} |->
                               Literal(CASE check = "OSError" /\ use_docker ->
                                                "Docker binary not found in PATH."
                                         [] check = "OSError" /\ ~use_docker ->
                                                "PHP binary not found in PATH."
                                         [] check # "OSError" /\ use_docker ->
                                                "Docker check failed."
                                         [] OTHER -> "PHP check failed.")])]
              ELSE [method |-> "run_with_php", pc |-> "ready", use_docker |-> use_docker]
    /\ UNCHANGED <<remote, args, result, calls, existing, invoked, repeat, tasks, client>>

\* module.run_command(cmd, data=input_json): the child runs and ends.
PhpRun ==
    /\ returned.method = "run_with_php" /\ returned.pc = "ready"
    /\ \E rc \in {0, 1, 255}, stdout \in ChildStdout, stderr \in ChildTexts :
          returned' = [method |-> "run_with_php", pc |-> "ran",
                       use_docker |-> returned.use_docker,
                       rc |-> rc, stdout |-> stdout, stderr |-> stderr]
    /\ UNCHANGED <<remote, args, result, calls, existing, invoked, repeat, tasks, client>>

\* The module exits with what it makes of rc, stdout and stderr (lines 452-481).
PhpResult ==
    /\ returned.method = "run_with_php" /\ returned.pc = "ran"
    /\ returned' = [returned EXCEPT !.pc = "exit"] @@
                      [out |-> run_with_php(returned.rc, returned.stdout, returned.stderr)]
    /\ UNCHANGED <<remote, args, result, calls, existing, invoked, repeat, tasks, client>>

NextP == PhpPrepare \/ PhpRun \/ PhpResult

SpecP == InitP /\ [][NextP]_vars

----------------------------------------------------------------------------
(* plugins/action/record.py: ActionModule *)

\* self._task.args: use_php left out, false or true.
PluginArgs ==
    {[k \in {"domain"} |-> "example.com"]}
    \cup {[k \in {"domain", "use_php"} |-> IF k = "domain" THEN "example.com" ELSE b] :
            b \in BOOLEAN}

\* A PHP file on the controller: whether its resolved path lies inside
\* plugins/module_utils/php, whether it exists, whether it can be read, and
\* its content.
PhpFiles ==
    {[inside |-> FALSE, exists |-> TRUE, readable |-> TRUE, content |-> "<?php"],
     [inside |-> TRUE, exists |-> FALSE, readable |-> FALSE, content |-> ""],
     [inside |-> TRUE, exists |-> TRUE, readable |-> FALSE, content |-> ""],
     [inside |-> TRUE, exists |-> TRUE, readable |-> TRUE, content |-> ""],
     [inside |-> TRUE, exists |-> TRUE, readable |-> TRUE, content |-> "<?php"]}

\* What the module answers when it is executed.
ModuleResults == {[changed |-> b] : b \in BOOLEAN}

\* result with failed and msg set
PluginFailed(res, msg) == Put(Put(res, "failed", TRUE), "msg", msg)

\* _inject_php_content(result, module_args): the result it returns and
\* module_args as it leaves them.
_inject_php_content(res, module_args, wrapper, sdk) ==
    IF ~wrapper.inside
    THEN [result |-> PluginFailed(res, <<"Resolved path for ", "cloudns_wrapper.php",
                                         " is outside the expected directory ">>),
          module_args |-> module_args]
    ELSE IF ~sdk.inside
    THEN [result |-> PluginFailed(res, <<"Resolved path for ", "ClouDNS_SDK.php",
                                         " is outside the expected directory ">>),
          module_args |-> module_args]
    ELSE IF ~wrapper.exists \/ ~sdk.exists
    THEN [result |-> PluginFailed(res, <<"Could not find PHP files at ">>),
          module_args |-> module_args]
    ELSE IF ~wrapper.readable \/ ~sdk.readable
    THEN [result |-> PluginFailed(res, <<"Failed to read PHP files: ">>),
          module_args |-> module_args]
    ELSE [result |-> res,
          module_args |-> Put(Put(module_args, "_wrapper_content", wrapper.content),
                              "_sdk_content", sdk.content)]

\* self._execute_module(module_args=module_args): the arguments are recorded
\* in executed, the module's answer is the result.
_execute_module(module_args, answer) ==
    [result |-> answer, executed |-> <<module_args>>]

\* Mutant: the module is executed whatever the injection came to.
run_regardless(task_args, wrapper, sdk, answer) ==
    IF Get(task_args, "use_php", FALSE)
    THEN _execute_module(_inject_php_content(EmptyDict, task_args, wrapper, sdk).module_args,
                         answer)
    ELSE _execute_module(task_args, answer)

\* ActionModule.run: the result returned and the executions of the module.
run(task_args, wrapper, sdk, answer) ==
    IF Get(task_args, "use_php", FALSE)
    THEN The({IF Get(i.result, "failed", FALSE)
              THEN [result |-> i.result, executed |-> <<>>]
              ELSE _execute_module(i.module_args, answer) :
              i \in {_inject_php_content(EmptyDict, task_args, wrapper, sdk)}})
    ELSE _execute_module(task_args, answer)

\* A task of the record action is about to run on a controller.
ActionTask ==
    /\ IF returned.method = None THEN TRUE ELSE returned.pc = "done"
    /\ \E task_args \in PluginArgs, wrapper \in PhpFiles, sdk \in PhpFiles :
          returned' = [method |-> "run", pc |-> "task", args |-> task_args,
                       wrapper |-> wrapper, sdk |-> sdk]
    /\ UNCHANGED <<remote, args, result, calls, existing, invoked, repeat, tasks, client>>

\* ActionModule.run(tmp, task_vars)
ActionRun ==
    /\ returned.method = "run" /\ returned.pc = "task"
    /\ \E answer \in ModuleResults :
          returned' = [returned EXCEPT !.pc = "done"] @@
                      [out |-> run(returned.args, returned.wrapper, returned.sdk, answer)]
    /\ UNCHANGED <<remote, args, result, calls, existing, invoked, repeat, tasks, client>>

NextA == ActionTask \/ ActionRun

SpecA == InitP /\ [][NextA]_vars

----------------------------------------------------------------------------
(* RetryingTransport: execute(BoundRequest, timeout, maxRetries), which the *)
(* client configures with max_retries when it creates its SwaggerClient.     *)

\* Largest max_retries a client is created with.
MaxRetries == 3

\* What one attempt to send the request comes to: a failure of the transport
\* layer, or a response with an HTTP status.
TransportFailures == {"ConnectionError", "Timeout"}
HttpStatuses == {200, 404, 500}
AttemptOutcomes ==
    [kind : {"failure"}, cause : TransportFailures, status : {0}]
    \cup [kind : {"response"}, cause : {None}, status : HttpStatuses]

\* Mutant: a response with a 5xx status is retried like a transport failure.
after_attempt_5xx(t, o) ==
    IF o.kind = "response" /\ o.status < 500
    THEN [t EXCEPT !.pc = "done", !.log = Append(@, o),
                   !.outcome = [kind |-> "RawResponse", status |-> o.status, cause |-> None]]
    ELSE IF Len(t.log) + 1 >= t.max_retries
    THEN [t EXCEPT !.pc = "done", !.log = Append(@, o),
                   !.outcome = [kind |-> "TransportError", status |-> 0, cause |-> o.cause]]
    ELSE [t EXCEPT !.log = Append(@, o)]

\* The transport after an attempt that came to o: a response of any status is
\* returned as data; after a failure the request is sent again unless
\* max_retries attempts were made, and then TransportError carries the cause
\* of the last one.
after_attempt(t, o) ==
    IF o.kind = "response"
    THEN [t EXCEPT !.pc = "done", !.log = Append(@, o),
                   !.outcome = [kind |-> "RawResponse", status |-> o.status, cause |-> None]]
    ELSE IF Len(t.log) + 1 >= t.max_retries
    THEN [t EXCEPT !.pc = "done", !.log = Append(@, o),
                   !.outcome = [kind |-> "TransportError", status |-> 0, cause |-> o.cause]]
    ELSE [t EXCEPT !.log = Append(@, o)]

\* execute(request, timeout, max_retries) is called.
Execute ==
    /\ IF returned.method = None THEN TRUE ELSE returned.pc = "done"
    /\ \E max_retries \in 1..MaxRetries,
          op \in {"dnsListRecords", "dnsAddRecord", "dnsModifyRecord", "dnsDeleteRecord"} :
          returned' = [method |-> "execute", pc |-> "sending", op |-> op,
                       max_retries |-> max_retries, log |-> <<>>,
                       outcome |-> [kind |-> None, status |-> 0, cause |-> None]]
    /\ UNCHANGED <<remote, args, result, calls, existing, invoked, repeat, tasks, client>>

\* One attempt to send the request, after the backoff when it is not the first.
Attempt ==
    /\ returned.method = "execute" /\ returned.pc = "sending"
    /\ \E o \in AttemptOutcomes : returned' = after_attempt(returned, o)
    /\ UNCHANGED <<remote, args, result, calls, existing, invoked, repeat, tasks, client>>

NextT == Execute \/ Attempt

\* An attempt ends: by an answer, a refused connection or the request timeout.
SpecT == InitP /\ [][NextT]_vars /\ WF_vars(Attempt)

----------------------------------------------------------------------------
(* Properties *)

Mutating(c) == c.op \in {"dnsAddRecord", "dnsModifyRecord", "dnsDeleteRecord"}

NoMutatingCall == \A i \in 1..Len(calls) : ~Mutating(calls[i])

IsFailed == "failed" \in DOMAIN result

\* The entries list_records returned, their values and their ttls as integers.
Items == IF existing = <<>> THEN <<>> ELSE existing[1]
Listed == 1..Len(Items)
ListedNone == existing = <<(<<>>)>>
ListedValue(i) == Items[i].rec["record"]
ListedTtl(i) ==
    IF "ttl" \in DOMAIN Items[i].rec THEN PyInt(Items[i].rec["ttl"]) ELSE 0

\* The invocation asked for state=present with a value.
PresentWithValue == invoked /\ args.state = "present" /\ Truthy(args.value)

\* C1: when an ensure_record(state=present) call reported changed=true, a
\* second call with identical arguments against the remote it left reports
\* changed=false and issues no add, modify or delete.
C1_Idempotent ==
    (repeat /\ args.state = "present") => (~result.changed /\ NoMutatingCall)

\* C1 witness: a second call with the arguments of a first one that changed
\* the zone has returned.
C1_Witness ==
    /\ repeat /\ args.state = "present"
    /\ Len(calls) = 1 /\ ~IsFailed /\ Len(Items) > 0

\* C2: state=present with a value, two or more listed entries and none with
\* that value: the call fails with the 'Multiple records found' error, issues
\* no mutating call and leaves the zone as it was.
C2_Ambiguous ==
    [][(/\ PresentWithValue
        /\ Len(Items) >= 2
        /\ \A i \in Listed : ListedValue(i) # args.value)'
       => (/\ IsFailed /\ ~result.changed
           /\ result.msg[1] = "Multiple records found for "
           /\ NoMutatingCall
           /\ Len(calls) = 1)'
          /\ remote' = remote]_vars

\* C2 witness: an invocation found two listed entries, neither with the value
\* asked for, and failed.
C2_Witness ==
    /\ PresentWithValue /\ Len(Items) >= 2
    /\ \A i \in Listed : ListedValue(i) # args.value
    /\ IsFailed

\* Entry i is the first listed entry whose value is v.
IsFirstWith(i, v) ==
    /\ ListedValue(i) = v
    /\ \A j \in 1..(i - 1) : ListedValue(j) # v

\* The invocation issued the list call and then exactly one modifyRecord, for
\* record id with the value and ttl asked for.
OneModifyOf(id) ==
    /\ Len(calls) = 2
    /\ calls[1].op = "dnsListRecords"
    /\ calls[2].op = "dnsModifyRecord"
    /\ calls[2].params["domain-name"] = args.domain_name
    /\ calls[2].params["record-id"] = id
    /\ calls[2].params["host"] = args.host
    /\ calls[2].params["record"] = args.value
    /\ calls[2].params["ttl"] = args.ttl

\* The message of a ttl update names the old ttl and the new one.
NamesTtls(old, new) ==
    result.msg = <<"Record updated (TTL changed from ", PyStr(old), " to ", PyStr(new), ")">>

\* C3 as stated: whenever SOME listed entry has the value asked for and
\* another ttl, exactly one modifyRecord goes to that entry, changed=true, and
\* the message names both ttls.
C3_AnyMatch ==
    \A i \in Listed :
        (PresentWithValue /\ ListedValue(i) = args.value /\ ListedTtl(i) # args.ttl)
        => (/\ OneModifyOf(Items[i].id)
            /\ ~IsFailed /\ result.changed
            /\ NamesTtls(ListedTtl(i), args.ttl))

\* C3 amended: when the FIRST listed entry with the value asked for has
\* another ttl (as integers), exactly one modifyRecord is issued, for that
\* entry's id with the value and ttl asked for, nothing else is touched, no
\* ambiguity error is raised, changed=true and the message names both ttls.
C3_FirstMatch ==
    \A i \in Listed :
        (PresentWithValue /\ IsFirstWith(i, args.value) /\ ListedTtl(i) # args.ttl)
        => (/\ OneModifyOf(Items[i].id)
            /\ ~IsFailed /\ result.changed
            /\ NamesTtls(ListedTtl(i), args.ttl))

\* C3 witness: the matching entry was the second of two listed, its ttl was
\* updated.
C3_Witness ==
    /\ PresentWithValue /\ Len(Items) >= 2
    /\ IsFirstWith(2, args.value) /\ ListedTtl(2) # args.ttl
    /\ result.changed /\ Len(calls) = 2

\* C4 as stated: whenever SOME listed entry has the value and the ttl asked
\* for, changed=false and nothing is mutated.
C4_AnyMatch ==
    (PresentWithValue
     /\ \E i \in Listed : ListedValue(i) = args.value /\ ListedTtl(i) = args.ttl)
    => (~result.changed /\ NoMutatingCall)

\* C4 amended: when the FIRST listed entry with the value asked for has the
\* ttl asked for (as integers), changed=false and no mutating call is issued,
\* however many other entries are listed.
C4_FirstMatch ==
    (PresentWithValue
     /\ \E i \in Listed : IsFirstWith(i, args.value) /\ ListedTtl(i) = args.ttl)
    => (~result.changed /\ ~IsFailed /\ NoMutatingCall /\ Len(calls) = 1)

\* C4 witness: the entry in place is listed with a ttl string that is not in
\* canonical form, next to another entry.
C4_Witness ==
    /\ PresentWithValue /\ Len(Items) >= 2
    /\ \E i \in Listed : /\ IsFirstWith(i, args.value) /\ ListedTtl(i) = args.ttl
                         /\ Items[i].rec["ttl"] # PyStr(args.ttl)
    /\ ~result.changed

\* C5: state=present with a value and an empty listing: the list call is
\* followed by exactly one addRecord carrying the domain, type, host, value,
\* ttl and extras asked for, nothing is modified or deleted, changed=true.
C5_Create ==
    (PresentWithValue /\ ListedNone)
    => (/\ Len(calls) = 2
        /\ calls[1].op = "dnsListRecords"
        /\ calls[2].op = "dnsAddRecord"
        /\ calls[2].params["domain-name"] = args.domain_name
        /\ calls[2].params["record-type"] = args.record_type
        /\ calls[2].params["host"] = args.host
        /\ calls[2].params["record"] = args.value
        /\ calls[2].params["ttl"] = args.ttl
        /\ \A k \in DOMAIN args.kwargs :
              /\ k \in DOMAIN calls[2].params
              /\ calls[2].params[k] = args.kwargs[k]
        /\ ~IsFailed /\ result.changed
        /\ result.msg = <<"Record created">>)

\* C5 witness: a record was created with an extra attribute.
C5_Witness ==
    /\ PresentWithValue /\ ListedNone
    /\ args.kwargs # EmptyDict
    /\ Len(calls) = 2 /\ calls[2].op = "dnsAddRecord"
    /\ result.changed

\* C6: state=present with a value and exactly one listed entry, whose value
\* is another one: exactly one modifyRecord is issued, for that entry's id
\* with the value and ttl asked for, whatever the entry's value and ttl;
\* nothing is added or deleted; changed=true.
C6_Converge ==
    (PresentWithValue /\ Len(Items) = 1 /\ ListedValue(1) # args.value)
    => (/\ OneModifyOf(Items[1].id)
        /\ ~IsFailed /\ result.changed
        /\ result.msg = <<"Record updated with new value">>)

\* C6 witness: the lone entry had another value and already the ttl asked for.
C6_Witness ==
    /\ PresentWithValue /\ Len(Items) = 1
    /\ ListedValue(1) # args.value /\ ListedTtl(1) = args.ttl
    /\ result.changed /\ Len(calls) = 2

\* The listed entries state=absent is to delete: those with the value given,
\* or all of them when no value is given.
Targets == {i \in Listed : ~Truthy(args.value) \/ ListedValue(i) = args.value}

\* C7: state=absent with a non-empty listing: one deleteRecord is issued for
\* each listed entry whose value is the one given (for every listed entry when
\* no value is given) and for no other entry; nothing is added or modified;
\* changed says whether anything was deleted, and the message reports how
\* many were.
C7_Absent ==
    (invoked /\ args.state = "absent" /\ Len(Items) > 0)
    => (/\ calls[1].op = "dnsListRecords"
        /\ \A k \in 2..Len(calls) :
              /\ calls[k].op = "dnsDeleteRecord"
              /\ calls[k].params["domain-name"] = args.domain_name
              /\ \E i \in Targets : calls[k].params["record-id"] = Items[i].id
        /\ \A i \in Targets :
              Cardinality({k \in 2..Len(calls) :
                              calls[k].params["record-id"] = Items[i].id}) = 1
        /\ ~IsFailed
        /\ result.changed = (Cardinality(Targets) > 0)
        /\ result.msg = IF Cardinality(Targets) > 0
                        THEN <<"Deleted ", PyStr(Cardinality(Targets)), " record(s)">>
                        ELSE <<"No matching records to delete">>)

\* C7 witness: of two listed entries, the one with the value given was
\* deleted and the other left.
C7_Witness ==
    /\ invoked /\ args.state = "absent" /\ Len(Items) = 2
    /\ Cardinality(Targets) = 1
    /\ Len(calls) = 2 /\ result.changed

\* C8: state=absent with an empty listing: changed=false and no mutating call.
C8_AbsentEmpty ==
    (invoked /\ args.state = "absent" /\ ListedNone)
    => (/\ ~result.changed /\ ~IsFailed
        /\ NoMutatingCall
        /\ Len(calls) = 1
        /\ result.msg = <<"Record does not exist">>)

\* C8 witness: state=absent found nothing listed while the zone held records
\* of another host.
C8_Witness ==
    /\ invoked /\ args.state = "absent" /\ ListedNone
    /\ remote # <<>> /\ ~result.changed

\* C9: state=present without a value (None or empty) fails with the
\* validation error before anything is fetched: no list call and no mutating
\* call is issued.
C9_ValidatedFirst ==
    (invoked /\ args.state = "present" /\ ~Truthy(args.value))
    => (/\ IsFailed
        /\ result.msg = <<"Value is required when state is 'present'">>
        /\ calls = <<>>)

\* C10: a state other than 'present' and 'absent' fails with the error that
\* names the state; no mutating call is issued, whatever the zone holds.
C10_InvalidState ==
    (invoked /\ args.state \notin {"present", "absent"})
    => (/\ IsFailed /\ ~result.changed
        /\ result.msg = <<"Invalid state: ", args.state>>
        /\ NoMutatingCall)

\* C10 witness: an invalid state was refused while records that state=absent
\* would have deleted were listed.
C10_Witness ==
    /\ invoked /\ args.state \notin {"present", "absent"}
    /\ Len(Items) > 0 /\ IsFailed

----------------------------------------------------------------------------
(* Properties of an invocation against a remote that may fail a call *)

\* The remote carried the call out: it answered, and not with a failure
\* status.
Succeeded(c) == ~c.raised /\ ~IsFailedStatus(c.response)

\* The answer to the list call is one that list_records takes for an empty
\* listing.
Normalised(c) ==
    /\ c.op = "dnsListRecords" /\ ~c.raised
    /\ c.response.kind = "envelope"
    /\ Get(c.response.body, "status", None) = "Failed"
    /\ \/ Contains(Lower(Get(c.response.body, "statusDescription", <<>>)), Chars_no_record)
       \/ Contains(Lower(Get(c.response.body, "statusDescription", <<>>)), Chars_not_found)

\* The call came to a transport error or a domain error.
CallError(c) == c.raised \/ (IsFailedStatus(c.response) /\ ~Normalised(c))

\* The text of the error the call came to.
ErrorText(c) ==
    IF c.raised THEN <<"SwaggerClientError">>
    ELSE IF c.op = "dnsListRecords"
    THEN <<"List records failed: ", Get(c.response.body, "statusDescription", <<>>)>>
    ELSE <<c.op, " failed: ", Get(c.response.body, "statusDescription", <<>>)>>

\* The errors ensure_record raises itself.
ValidationError ==
    \/ args.state = "present" /\ ~Truthy(args.value)
    \/ args.state \notin {"present", "absent"}
    \/ PresentWithValue /\ Len(Items) >= 2

\* C11: every return of ensure_record is a mapping with the keys 'changed'
\* and 'msg'; an error of the list call or of a mutating call is never raised
\* to the caller but reported as failed=true with the error text in msg; and
\* 'failed' is present only when an error occurred.
C11_ErrorsReported ==
    invoked =>
        /\ {"changed", "msg"} \subseteq DOMAIN result
        /\ \A k \in 1..Len(calls) :
              CallError(calls[k])
              => (IsFailed /\ result.failed = TRUE /\ result.msg = ErrorText(calls[k]))
        /\ IsFailed => (ValidationError \/ \E k \in 1..Len(calls) : CallError(calls[k]))

\* C12: changed=true if and only if a mutating call of the invocation
\* succeeded on the remote, whichever calls fail.
C12_ChangedIffMutated ==
    (invoked /\ "changed" \in DOMAIN result)
    => (result.changed <=>
            \E k \in 1..Len(calls) : Mutating(calls[k]) /\ Succeeded(calls[k]))

\* C13 as stated: an invocation issues one list call followed by at most one
\* mutating call.
C13_AtMostOne ==
    invoked =>
        /\ Len(calls) \in {1, 2}
        /\ calls[1].op = "dnsListRecords"
        /\ Len(calls) = 2 => Mutating(calls[2])

\* C13 amended: an invocation issues exactly one list call, first; for
\* state=present at most one mutating call (add or modify) follows; for
\* state=absent one deleteRecord per entry to delete follows, one after the
\* other in listing order and each for another entry; for any other state
\* nothing follows.
C13_Sequential ==
    invoked =>
        /\ Len(calls) >= 1
        /\ calls[1].op = "dnsListRecords"
        /\ \A k \in 2..Len(calls) : Mutating(calls[k])
        /\ args.state = "present" =>
              /\ Len(calls) <= 2
              /\ \A k \in 2..Len(calls) : calls[k].op # "dnsDeleteRecord"
        /\ args.state = "absent" =>
              /\ \A k \in 2..Len(calls) : calls[k].op = "dnsDeleteRecord"
              /\ \E pos \in [2..Len(calls) -> Listed] :
                    /\ \A k \in 2..Len(calls) :
                          calls[k].params["record-id"] = Items[pos[k]].id
                    /\ \A j, k \in 2..Len(calls) : j < k => pos[j] < pos[k]
        /\ args.state \notin {"present", "absent"} => Len(calls) = 1

\* C13 witness: state=absent deleted two listed entries in one invocation.
C13_Witness ==
    /\ invoked /\ args.state = "absent"
    /\ Len(calls) = 3
    /\ Succeeded(calls[2]) /\ Succeeded(calls[3])
    /\ result.changed

\* C14: once a mutating call of an invocation has failed, the invocation
\* issues no further call, the failed call is not issued again, and the
\* result is a failed one.
C14_StopsAtFailure ==
    invoked =>
        \A k \in 1..Len(calls) :
            (Mutating(calls[k]) /\ ~Succeeded(calls[k]))
            => /\ k = Len(calls)
               /\ \A j \in 1..(k - 1) :
                     Call(calls[j].op, calls[j].params) # Call(calls[k].op, calls[k].params)
               /\ IsFailed /\ result.failed = TRUE

\* C14 witness: the first of two deletes failed; the second listed entry was
\* not touched.
C14_Witness ==
    /\ invoked /\ args.state = "absent" /\ ~Truthy(args.value)
    /\ Len(Items) = 2 /\ IsDict(Items[1].rec)
    /\ Len(calls) = 2 /\ ~Succeeded(calls[2])
    /\ IsFailed

----------------------------------------------------------------------------
(* Properties of successive invocations *)

\* What an invocation decided: the calls it issued, without their answers.
Decision(log) == [k \in 1..Len(log) |-> Call(log[k].op, log[k].params)]

\* The invocation began with a list call for its own (domain, host, type).
ListedFirst ==
    /\ Len(calls) >= 1
    /\ calls[1].op = "dnsListRecords"
    /\ calls[1].params = [k \in {"domain-name", "host", "type"} |->
                            CASE k = "domain-name" -> args.domain_name
                              [] k = "host" -> args.host
                              [] k = "type" -> args.record_type]

\* C15: every mutating call of an invocation comes after a list call of the
\* same invocation for the same (domain, host, type); and nothing is kept
\* from one invocation to the next: an invocation with the arguments of the
\* one before it, against the zone that one found and left as it was, issues
\* the same calls and returns the same result.
C15_FreshEveryCall ==
    /\ []((\E k \in 1..Len(calls) : Mutating(calls[k])) => ListedFirst)
    /\ [][(invoked /\ invoked' /\ args' = args /\ NoMutatingCall)
           => (Decision(calls') = Decision(calls) /\ result' = result)]_vars

\* C15 witness: after an earlier invocation had deleted record 1, an
\* invocation listed the zone again and updated the record that was left.
C15_Witness ==
    /\ PresentWithValue
    /\ ListedFirst
    /\ Len(calls) = 2 /\ calls[2].op = "dnsModifyRecord"
    /\ remote # <<>>
    /\ \A j \in 1..Len(remote) : remote[j].id # RecordId(1)

----------------------------------------------------------------------------
(* Properties of concurrent tasks *)

\* What task p listed, and what a list call for its key would return now.
TaskItems(p) == Entries(tasks[p].listed.value)
TaskKey(p) == <<tasks[p].args.domain_name, tasks[p].args.host, tasks[p].args.record_type>>
FreshItems(p) ==
    ItemsFrom(remote,
              SelectIdx(remote, list_params(tasks[p].args.domain_name,
                                            tasks[p].args.host,
                                            tasks[p].args.record_type)), 1)

\* The entries of its listing that task p is to delete.
TaskTargets(p) ==
    {i \in 1..Len(TaskItems(p)) : TaskItems(p)[i].rec["record"] = tasks[p].args.value}

\* Task p issued the mutating call that its listing alone calls for.
ActedOnListing(p) ==
    /\ (tasks[p].args.state = "present" /\ TaskItems(p) = <<>>)
       => /\ Len(tasks[p].calls) = 2
          /\ tasks[p].calls[2].op = "dnsAddRecord"
          /\ tasks[p].calls[2].params["host"] = tasks[p].args.host
          /\ tasks[p].calls[2].params["record"] = tasks[p].args.value
    /\ (/\ tasks[p].args.state = "present" /\ Len(TaskItems(p)) = 1
        /\ TaskItems(p)[1].rec["record"] # tasks[p].args.value)
       => /\ Len(tasks[p].calls) = 2
          /\ tasks[p].calls[2].op = "dnsModifyRecord"
          /\ tasks[p].calls[2].params["record-id"] = TaskItems(p)[1].id
          /\ tasks[p].calls[2].params["record"] = tasks[p].args.value
    /\ (tasks[p].args.state = "absent" /\ TaskTargets(p) # {})
       => /\ Len(tasks[p].calls) >= 2
          /\ tasks[p].calls[2].op = "dnsDeleteRecord"
          /\ \E i \in TaskTargets(p) :
                /\ tasks[p].calls[2].params["record-id"] = TaskItems(p)[i].id
                /\ \A j \in TaskTargets(p) : i <= j

\* Tasks p and q both asked for a record, of different values, on a (domain,
\* host, type) that both listed empty.
BothListedEmpty(p, q) ==
    /\ p # q
    /\ tasks[p].pc = "done" /\ tasks[q].pc = "done"
    /\ tasks[p].args.state = "present" /\ tasks[q].args.state = "present"
    /\ TaskKey(p) = TaskKey(q)
    /\ tasks[p].args.value # tasks[q].args.value
    /\ TaskItems(p) = <<>> /\ TaskItems(q) = <<>>

\* C16: a task acts on what it listed, whatever the other task has done to
\* the zone since: the mutating call its listing calls for is issued; two
\* tasks that asked for different values and both listed the key empty both
\* add, and the zone holds two records for the key; a task whose key no
\* other task works on acts on a listing that is still what the zone holds.
C16_StaleDecision ==
    /\ \A p \in Procs : tasks[p].pc = "done" => ActedOnListing(p)
    /\ \A p, q \in Procs :
          BothListedEmpty(p, q)
          => /\ Succeeded(tasks[p].calls[2]) /\ Succeeded(tasks[q].calls[2])
             /\ {remote[j].record : j \in {i \in 1..Len(remote) :
                                                remote[i].host = tasks[p].args.host}}
                  = {tasks[p].args.value, tasks[q].args.value}
             /\ Cardinality({i \in 1..Len(remote) :
                                remote[i].host = tasks[p].args.host}) = 2
    /\ \A p \in Procs :
          (/\ tasks[p].pc = "listed"
           /\ \A q \in Procs \ {p} : tasks[q].pc = "idle" \/ TaskKey(q) # TaskKey(p))
          => TaskItems(p) = FreshItems(p)

\* C16 witness: both tasks listed the key empty, both added, and the zone
\* holds two records for it.
C16_Witness ==
    \E p, q \in Procs :
        /\ BothListedEmpty(p, q)
        /\ tasks[p].result.changed /\ tasks[q].result.changed
        /\ Cardinality({i \in 1..Len(remote) : remote[i].host = tasks[p].args.host}) = 2

----------------------------------------------------------------------------
(* Properties of the methods called one at a time *)

\* The last call was of list_records / of _call, and the remote answered it.
ListAnswered ==
    returned.method = "list_records" /\ ~returned.out.calls[1].raised
CallAnswered ==
    returned.method = "_call" /\ ~returned.out.calls[1].raised

\* The body call_operation handed to the method.
Body == returned.out.calls[1].response

\* C17: list_records returns an empty mapping and raises nothing when the
\* response has status Failed and a statusDescription that contains 'no
\* record' or 'not found' in whatever case, and when the response is null or
\* empty.
C17_EmptyListing ==
    ListAnswered =>
        /\ (/\ Body.kind = "envelope"
            /\ Get(Body.body, "status", None) = "Failed"
            /\ "statusDescription" \in DOMAIN Body.body
            /\ \/ Contains(Lower(Body.body["statusDescription"]), Chars_no_record)
               \/ Contains(Lower(Body.body["statusDescription"]), Chars_not_found))
           => (~returned.out.raised /\ returned.out.value = RecordsBody(<<>>))
        /\ (Body = Null \/ Body = RecordsBody(<<>>))
           => (~returned.out.raised /\ returned.out.value = RecordsBody(<<>>))

\* C17 witness: a Failed answer whose description says NOT FOUND in capitals
\* was returned as an empty mapping.
C17_Witness ==
    /\ ListAnswered
    /\ Body = Envelope("Failed", Chars_HostNotFound)
    /\ ~returned.out.raised /\ returned.out.value = RecordsBody(<<>>)

\* C18: for every response with status Failed or failed that is not one of
\* the normalised descriptions, list_records raises a domain error that
\* carries the response; it never returns the envelope.
C18_FailureRaised ==
    (ListAnswered /\ IsFailedStatus(Body) /\ ~Normalised(returned.out.calls[1]))
    => (/\ returned.out.raised
        /\ returned.out.api_response = <<Body>>)

\* The error _check_response is to raise for the body.
Classified(text) ==
    /\ returned.out.raised
    /\ returned.out.msg = <<returned.out.calls[1].op, " failed: ", text>>
    /\ returned.out.api_response = <<Body>>

\* C19 as stated: with classification enabled and a body of status Failed or
\* failed, _call raises a domain error with the statusDescription, or with
\* the message when there is no statusDescription, and with the response;
\* in every other case the body is returned unchanged.
C19_Classifier ==
    CallAnswered =>
        IF returned.check_response /\ IsFailedStatus(Body)
        THEN Classified(IF "statusDescription" \in DOMAIN Body.body
                        THEN Body.body["statusDescription"]
                        ELSE Get(Body.body, "message", Chars_Unknown))
        ELSE ~returned.out.raised /\ returned.out.value = Body

\* C19 amended: the error carries the statusDescription when there is one
\* and it is not empty, otherwise the message, otherwise 'Unknown error'.
C19_ClassifierOr ==
    CallAnswered =>
        IF returned.check_response /\ IsFailedStatus(Body)
        THEN Classified(IF /\ "statusDescription" \in DOMAIN Body.body
                           /\ Body.body["statusDescription"] # <<>>
                        THEN Body.body["statusDescription"]
                        ELSE IF "message" \in DOMAIN Body.body
                        THEN Body.body["message"]
                        ELSE Chars_Unknown)
        ELSE ~returned.out.raised /\ returned.out.value = Body

\* C19 witness: a delete answered with the lower-case status was classified.
C19_Witness ==
    /\ CallAnswered /\ returned.check_response
    /\ returned.out.calls[1].op = "dnsDeleteRecord"
    /\ Body = Envelope("failed", Chars_Refused)
    /\ returned.out.raised

\* The id is made of decimal digits, at least one.
OnlyDigits(s) ==
    /\ s # <<>>
    /\ \A i \in 1..Len(s) : s[i] \in {"0", "1", "2", "3", "4", "5", "6", "7", "8", "9"}

\* C20: the auth key is 'auth-id' when is_subuser is false, whatever the
\* id; 'sub-auth-id' when is_subuser is true and the id is all digits;
\* 'sub-auth-user' when is_subuser is true and it is not. The id is sent
\* under that key, next to the password.
C20_AuthKey ==
    returned.method = "__init__" =>
        /\ returned.auth_type =
              (IF ~returned.is_subuser THEN "auth-id"
               ELSE IF OnlyDigits(returned.auth_id) THEN "sub-auth-id"
               ELSE "sub-auth-user")
        /\ DOMAIN returned.auth_params = {returned.auth_type, "auth-password"}
        /\ returned.auth_params[returned.auth_type] = returned.auth_id
        /\ returned.auth_params["auth-password"] = returned.auth_password

\* C20 witness: a sub-user id that begins with digits but is not numeric.
C20_Witness ==
    /\ returned.method = "__init__" /\ returned.is_subuser
    /\ returned.auth_id = <<"1", "2", "a">>
    /\ returned.auth_type = "sub-auth-user"

\* The three keys an id is sent under.
IdKeys == {"auth-id", "sub-auth-id", "sub-auth-user"}

\* C21: the auth parameters of a constructed client have exactly two keys,
\* one of 'auth-id' / 'sub-auth-id' / 'sub-auth-user' holding the id the
\* client was given and 'auth-password' holding its password, and no method
\* call, answered or failed, changes them.
C21_AuthParams ==
    /\ [](client # NoClient =>
            /\ Cardinality(DOMAIN client.auth_params) = 2
            /\ Cardinality(DOMAIN client.auth_params \cap IdKeys) = 1
            /\ \A k \in DOMAIN client.auth_params \cap IdKeys :
                  client.auth_params[k] = client.auth_id
            /\ "auth-password" \in DOMAIN client.auth_params
            /\ client.auth_params["auth-password"] = client.auth_password)
    /\ [][(client # NoClient /\ returned'.method # "__init__")
           => client'.auth_params = client.auth_params]_vars

\* C21 witness: a sub-user client made a call that raised and still holds
\* its two auth parameters.
C21_Witness ==
    /\ client # NoClient /\ client.is_subuser
    /\ returned.method = "_call" /\ returned.out.raised
    /\ DOMAIN client.auth_params = {"sub-auth-user", "auth-password"}

----------------------------------------------------------------------------
(* Properties of the parameter bags *)

\* The calls the last method called on the client issued.
Issued == IF returned.method = None THEN <<>> ELSE returned.out.calls

CoreKeys == {"domain-name", "record-type", "record-id", "host", "record", "ttl"}

\* C26: every extra attribute modify_record was given and sent is accepted
\* by add_record too, and add_record sends it under the same key.
C26_SameWire ==
    returned.method = "modify_record" =>
        \A a \in {x \in DOMAIN returned.kwargs : ~IsNone(returned.kwargs[x])} :
            \A add \in {add_record(<<>>, "example.com", "A", "www", "1.2.3.4", 60,
                                   [x \in {a} |-> returned.kwargs[a]], Answering, 1)} :
                /\ "exception" \notin DOMAIN add
                /\ \E k \in DOMAIN Issued[1].params \ CoreKeys :
                      /\ k \in DOMAIN add.calls[1].params
                      /\ Issued[1].params[k] = returned.kwargs[a]
                      /\ add.calls[1].params[k] = returned.kwargs[a]

----------------------------------------------------------------------------
(* Properties of the extra attributes *)

\* Listed entry i does not hold the extra attributes the invocation was given.
DiffersInExtras(i) ==
    \E k \in DOMAIN args.kwargs :
        k \notin DOMAIN Items[i].rec \/ Items[i].rec[k] # args.kwargs[k]

\* Call c of the invocation carries an extra attribute that was given.
CarriesExtras(c) == DOMAIN calls[c].params \cap DOMAIN args.kwargs # {}

\* The extras given reach the remote only with the add of a record that was
\* not listed, with the modify of the first entry holding the value when its
\* ttl is another one, or with the modify of a lone entry of another value.
ExtrasOnlyOnChange ==
    PresentWithValue =>
        \A c \in 1..Len(calls) :
            CarriesExtras(c) =>
                \/ calls[c].op = "dnsAddRecord" /\ ListedNone
                \/ /\ calls[c].op = "dnsModifyRecord"
                   /\ \/ \E i \in Listed :
                            /\ IsFirstWith(i, args.value)
                            /\ ListedTtl(i) # args.ttl
                            /\ calls[c].params["record-id"] = Items[i].id
                      \/ Len(Items) = 1 /\ ListedValue(1) # args.value

\* C27 as stated: whenever SOME listed entry has the value and ttl asked for
\* and other extras, no mutating call is issued and changed=false.
C27_AnyMatch ==
    (PresentWithValue
     /\ \E i \in Listed : /\ ListedValue(i) = args.value
                          /\ ListedTtl(i) = args.ttl
                          /\ DiffersInExtras(i))
    => (~result.changed /\ NoMutatingCall)

\* C27 amended: when the FIRST listed entry with the value asked for has the
\* ttl asked for and other extras than the ones given, no mutating call is
\* issued, changed=false and the zone, its extras included, stays as it was;
\* the extras given reach the remote only on the add path and on a modify
\* that a value or ttl difference triggered.
C27_OnlyValueAndTtl ==
    /\ [][(/\ PresentWithValue
           /\ \E i \in Listed : /\ IsFirstWith(i, args.value)
                                /\ ListedTtl(i) = args.ttl
                                /\ DiffersInExtras(i))'
          => (~result.changed /\ ~IsFailed /\ NoMutatingCall)'
             /\ remote' = remote]_vars
    /\ []ExtrasOnlyOnChange

\* C27 witness: the entry in place holds priority 20, priority 10 was asked
\* for with the same value and ttl, and the zone still holds priority 20.
C27_Witness ==
    /\ PresentWithValue /\ Len(Items) >= 1
    /\ IsFirstWith(1, args.value) /\ ListedTtl(1) = args.ttl
    /\ "priority" \in DOMAIN Items[1].rec /\ Items[1].rec["priority"] = 20
    /\ "priority" \in DOMAIN args.kwargs /\ args.kwargs["priority"] = 10
    /\ ~result.changed /\ Len(calls) = 1
    /\ \E j \in 1..Len(remote) :
          /\ remote[j].id = Items[1].id
          /\ remote[j]["priority"] = 20

----------------------------------------------------------------------------
(* Properties of the legacy subprocess path *)

\* The module has exited from run_with_php.
PhpExited == returned.method = "run_with_php" /\ returned.pc = "exit"

\* The keys of a result that hold text.
TextKeys == {"msg", "stderr", "stdout", "output", "error"}

\* C23: nothing run_with_php exits with holds the password: in every text
\* handed to fail_json or exit_json, stderr and stdout of the child and the
\* texts of its parsed result included, no occurrence of the password is
\* left.
C23_PasswordScrubbed ==
    PhpExited =>
        \A k \in DOMAIN returned.out.kwargs \cap TextKeys :
            ~Contains(returned.out.kwargs[k].text, PhpPassword)

----------------------------------------------------------------------------
(* Properties of the action plugin *)

\* ActionModule.run has returned.
ActionDone == returned.method = "run" /\ returned.pc = "done"

\* The task asks for the PHP mode.
UsePhp == "use_php" \in DOMAIN returned.args /\ returned.args["use_php"]

\* Both PHP files resolve inside the directory, exist and can be read.
PhpFilesRead ==
    \A f \in {returned.wrapper, returned.sdk} : f.inside /\ f.exists /\ f.readable

Injected == {"_wrapper_content", "_sdk_content"}

\* C25: without use_php the module is executed exactly once with the task
\* arguments as they are; with use_php it is executed, once, only when both
\* PHP files were found inside the directory and read, with both contents
\* added to the arguments; otherwise the plugin returns failed=true with a
\* message and the module is not executed.
C25_Modes ==
    ActionDone =>
        IF ~UsePhp
        THEN /\ returned.out.executed = <<returned.args>>
             /\ DOMAIN returned.args \cap Injected = {}
        ELSE IF PhpFilesRead
        THEN /\ Len(returned.out.executed) = 1
             /\ returned.out.executed[1] =
                   Put(Put(returned.args, "_wrapper_content", returned.wrapper.content),
                       "_sdk_content", returned.sdk.content)
        ELSE /\ returned.out.executed = <<>>
             /\ "failed" \in DOMAIN returned.out.result
             /\ returned.out.result["failed"]
             /\ "msg" \in DOMAIN returned.out.result
             /\ returned.out.result["msg"] # <<>>

\* C25 witness: use_php with the wrapper in place and the SDK file missing:
\* the plugin failed and the module was not executed.
C25_Witness ==
    /\ ActionDone /\ UsePhp
    /\ returned.wrapper.inside /\ returned.wrapper.readable
    /\ ~returned.sdk.exists
    /\ returned.out.executed = <<>>
    /\ returned.out.result["failed"]

----------------------------------------------------------------------------
(* Properties of the transport *)

Sending == returned.method = "execute" /\ returned.pc = "sending"
Executed == returned.method = "execute" /\ returned.pc = "done"

\* The attempts made so far, all but the last when the request is done, failed
\* at transport level.
OnlyFailuresRetried ==
    \A i \in 1..Len(returned.log) :
        returned.log[i].kind = "response" => (i = Len(returned.log) /\ Executed)

\* C24: a request is sent again only after a connection failure or a timeout
\* and at most max_retries times in all; a response, whatever its HTTP
\* status, ends the request and is returned as data; when max_retries
\* attempts failed, TransportError carries the cause of the last one; and
\* every request ends in one of the two ways.
C24_Retries ==
    /\ [](returned.method = "execute" =>
            /\ Len(returned.log) <= returned.max_retries
            /\ OnlyFailuresRetried
            /\ (Sending => Len(returned.log) < returned.max_retries)
            /\ (Executed =>
                  \A last \in {returned.log[Len(returned.log)]} :
                      IF last.kind = "response"
                      THEN returned.outcome =
                              [kind |-> "RawResponse", status |-> last.status, cause |-> None]
                      ELSE /\ Len(returned.log) = returned.max_retries
                           /\ returned.outcome =
                                 [kind |-> "TransportError", status |-> 0,
                                  cause |-> last.cause]))
    /\ (Sending ~> Executed)

\* C24 witness: after a timeout the request was sent again and answered with
\* status 500, which was returned and not retried although an attempt was
\* left.
C24_Witness ==
    /\ Executed /\ returned.max_retries = 3
    /\ Len(returned.log) = 2
    /\ returned.log[1].cause = "Timeout"
    /\ returned.outcome.kind = "RawResponse" /\ returned.outcome.status = 500

====
